---- MODULE Spec2Model ----
(***************************************************************************)
(* Happens-before Logger and Race Detector of sts/happensbefore.           *)
(*                                                                         *)
(* The Logger (hb_logger.py) is modelled handler by handler.  A handler is *)
(* a function from a Logger state record to a Logger state record; a       *)
(* Python exception is the flag exc, which stops the rest of the handler   *)
(* and keeps every mutation made before the raise.                         *)
(* The Race Detector (hb_race_detector.py) is modelled over a graph of     *)
(* events and tagged edges.                                                *)
(***************************************************************************)
EXTENDS Integers, Sequences, FiniteSets, TLC

(***************************************************************************)
(* Bounds of the model.                                                    *)
(***************************************************************************)
\* Hb events created in one run of the handle/successor specification
MaxEid == 3
\* eids in use beyond which the simulator delivers no further message event
MaxCtlEid == 3
\* operations attached to one handle event
MaxOps == 2
\* MessageOut lines buffered at a time
MaxLines == 1

(***************************************************************************)
(* The simulated network and the objects it passes around.                 *)
(***************************************************************************)
Dpids == {1, 2}
Hids == {1}
Packets == {"p1", "p2"}
\* messages a switch sends to the controller (PACKET_IN), by their bytes
OutMsgs == {"pinP", "pinQ"}
\* message objects a switch receives from the controller (FLOW_MOD)
InMsgs == {"fm1", "fm2"}
Msgs == OutMsgs \cup InMsgs
\* controller-assigned switch ids
Swids == {11, 12}

\* Python's None, for a tag, a dpid or a swid
None == 0

\* base64 of the raw bytes of a message: two objects may carry equal bytes
base64_encode(msg) ==
  CASE msg = "pinP" -> "P"
    [] msg = "pinQ" -> "Q"
    [] msg = "fm1" -> "F"
    [] msg = "fm2" -> "G"

OutBytes == {base64_encode(m) : m \in OutMsgs}
InBytes == {base64_encode(m) : m \in InMsgs}

\* the switch id the controller uses for a datapath
ControllerSwid(dpid) == dpid + 10

(***************************************************************************)
(* Object Registry (hb_tags.ObjectRegistry): object identity -> tag.       *)
(***************************************************************************)
EmptyRegistry(Objs) == [tag |-> [o \in Objs |-> None], counter |-> 0]

AllocTag(reg) == reg.counter + 1

new_tag(reg, o) ==
  [reg |-> [tag |-> [reg.tag EXCEPT ![o] = AllocTag(reg)], counter |-> AllocTag(reg)],
   ret |-> AllocTag(reg)]

get_tag(reg, o) ==
  IF reg.tag[o] # None THEN [reg |-> reg, ret |-> reg.tag[o]] ELSE new_tag(reg, o)

remove_obj(reg, o) == [reg EXCEPT !.tag[o] = None]

generate_unused_tag(reg) ==
  [reg |-> [reg EXCEPT !.counter = AllocTag(reg)], ret |-> AllocTag(reg)]

\* rebinds tag t to object o; the tag must still be held by some object
replace_obj(reg, t, o) ==
  IF \E x \in DOMAIN reg.tag : reg.tag[x] = t /\ t # None
  THEN [reg |-> [reg EXCEPT !.tag = [x \in DOMAIN reg.tag |->
                    IF x = o THEN t ELSE IF reg.tag[x] = t THEN None ELSE reg.tag[x]]],
        ok |-> TRUE]
  ELSE [reg |-> reg, ok |-> FALSE]

(***************************************************************************)
(* Hb events (hb_events).  One record shape for all kinds; a field a kind  *)
(* does not have is None or empty.                                         *)
(***************************************************************************)
NoEvent == [type |-> "None"]

HbEvent(type, eid, dpid, hid, pid_in, pid_out, mid_in, mid_out, obj, msg) ==
  [type |-> type, eid |-> eid, dpid |-> dpid, hid |-> hid,
   pid_in |-> pid_in, pid_out |-> pid_out, mid_in |-> mid_in, mid_out |-> mid_out,
   operations |-> <<>>, obj |-> obj, msg |-> msg]

HbPacketHandle(eid, pid_in, dpid, packet) ==
  HbEvent("HbPacketHandle", eid, dpid, None, pid_in, <<>>, None, <<>>, packet, "")

HbMessageHandle(eid, mid_in, dpid, msg) ==
  HbEvent("HbMessageHandle", eid, dpid, None, None, <<>>, mid_in, <<>>, msg, base64_encode(msg))

HbMessageSend(eid, mid_in, mid_out, dpid, msg) ==
  HbEvent("HbMessageSend", eid, dpid, None, None, <<>>, mid_in, <<mid_out>>, msg, base64_encode(msg))

HbPacketSend(eid, pid_in, pid_out, dpid, packet) ==
  HbEvent("HbPacketSend", eid, dpid, None, pid_in, <<pid_out>>, None, <<>>, packet, "")

HbHostHandle(eid, pid_in, hid, packet) ==
  HbEvent("HbHostHandle", eid, None, hid, pid_in, <<>>, None, <<>>, packet, "")

HbHostSend(eid, pid_in, pid_out, hid, packet) ==
  HbEvent("HbHostSend", eid, None, hid, pid_in, <<pid_out>>, None, <<>>, packet, "")

HbControllerHandle(eid, mid_in, mid_out) ==
  HbEvent("HbControllerHandle", eid, None, None, None, <<>>, mid_in, <<mid_out>>, "", "")

HbControllerSend(eid, mid_in, mid_out) ==
  HbEvent("HbControllerSend", eid, None, None, None, <<>>, mid_in, <<mid_out>>, "", "")

HandleTypes == {"HbPacketHandle", "HbMessageHandle", "HbHostHandle"}
SuccessorTypes == {"HbPacketSend", "HbMessageSend", "HbHostSend"}

(***************************************************************************)
(* State of the Logger (HappensBeforeLogger.__init__) and of the threads   *)
(* that call into it.                                                      *)
(***************************************************************************)
VARIABLES
  output,                     \* "None" or "open": the trace file
  trace,                      \* the lines written to the trace file, in order
  eid_counter,                \* eids handed out to Hb events so far
  pids, mids,                 \* the two ObjectRegistry instances
  started_switch_event,       \* dpid -> event or NoEvent
  started_host_event,         \* hid -> event or NoEvent
  new_switch_events,          \* dpid -> queued successors
  new_host_events,            \* hid -> queued successors
  pending_packet_update,      \* dpid -> tag or None
  unmatched_HbMessageSend,    \* dpid -> <<mid_out, b64msg>> tuples
  unmatched_HbMessageHandle,  \* dpid -> <<mid_in, b64msg>> tuples
  controller_msgin_to_mid_out,\* <<swid, b64msg>> -> mid_out or None
  unmatched_lines_controller_msgout, \* buffered MessageOut lines
  swid_to_dpid, dpid_to_swid, \* the learned bindings, None when absent
  reader,                     \* the controller's line reader thread
  sim,                        \* the simulator thread inside a callback
  mutators,                   \* the threads that have changed Logger state
  rd                          \* the Race Detector and the graph it reads

loggerVars == <<output, trace, eid_counter, pids, mids, started_switch_event,
                started_host_event, new_switch_events, new_host_events,
                pending_packet_update, unmatched_HbMessageSend,
                unmatched_HbMessageHandle, controller_msgin_to_mid_out,
                unmatched_lines_controller_msgout, swid_to_dpid, dpid_to_swid>>

vars == <<loggerVars, reader, sim, mutators, rd>>

\* The Logger's fields as one record, the form the handlers work on.
Cur ==
  [output |-> output, trace |-> trace, eid_counter |-> eid_counter,
   pids |-> pids, mids |-> mids,
   started_switch_event |-> started_switch_event,
   started_host_event |-> started_host_event,
   new_switch_events |-> new_switch_events,
   new_host_events |-> new_host_events,
   pending_packet_update |-> pending_packet_update,
   unmatched_HbMessageSend |-> unmatched_HbMessageSend,
   unmatched_HbMessageHandle |-> unmatched_HbMessageHandle,
   controller_msgin_to_mid_out |-> controller_msgin_to_mid_out,
   unmatched_lines_controller_msgout |-> unmatched_lines_controller_msgout,
   swid_to_dpid |-> swid_to_dpid, dpid_to_swid |-> dpid_to_swid,
   exc |-> FALSE, ret |-> None]

\* The record written back to the fields.
Commit(s) ==
  /\ output' = s.output
  /\ trace' = s.trace
  /\ eid_counter' = s.eid_counter
  /\ pids' = s.pids
  /\ mids' = s.mids
  /\ started_switch_event' = s.started_switch_event
  /\ started_host_event' = s.started_host_event
  /\ new_switch_events' = s.new_switch_events
  /\ new_host_events' = s.new_host_events
  /\ pending_packet_update' = s.pending_packet_update
  /\ unmatched_HbMessageSend' = s.unmatched_HbMessageSend
  /\ unmatched_HbMessageHandle' = s.unmatched_HbMessageHandle
  /\ controller_msgin_to_mid_out' = s.controller_msgin_to_mid_out
  /\ unmatched_lines_controller_msgout' = s.unmatched_lines_controller_msgout
  /\ swid_to_dpid' = s.swid_to_dpid
  /\ dpid_to_swid' = s.dpid_to_swid

\* the fields of a state record that are Logger state
Fields(s) == [s EXCEPT !.exc = FALSE, !.ret = None]

InitLogger ==
  /\ output = "None"
  /\ trace = <<>>
  /\ eid_counter = 0
  /\ pids = EmptyRegistry(Packets)
  /\ mids = EmptyRegistry(Msgs)
  /\ started_switch_event = [d \in Dpids |-> NoEvent]
  /\ started_host_event = [h \in Hids |-> NoEvent]
  /\ new_switch_events = [d \in Dpids |-> <<>>]
  /\ new_host_events = [h \in Hids |-> <<>>]
  /\ pending_packet_update = [d \in Dpids |-> None]
  /\ unmatched_HbMessageSend = [d \in Dpids |-> <<>>]
  /\ unmatched_HbMessageHandle = [d \in Dpids |-> <<>>]
  /\ controller_msgin_to_mid_out = [k \in Swids \X OutBytes |-> None]
  /\ unmatched_lines_controller_msgout = <<>>
  /\ swid_to_dpid = [w \in Swids |-> None]
  /\ dpid_to_swid = [d \in Dpids |-> None]

(***************************************************************************)
(* Control flow of a handler.                                              *)
(***************************************************************************)
\* raise: the handler stops here, what it changed so far stays changed
Raise(s) == [s EXCEPT !.exc = TRUE]

\* a value returned to the caller
Return(s, v) == [s EXCEPT !.ret = v]

\* eid of the next Hb event constructed
NextEid(s) == s.eid_counter + 1

TakeEid(s) == [s EXCEPT !.eid_counter = NextEid(s)]

\* list.remove(x): removes the first element equal to x
RemoveFirst(q, x) ==
  LET i == CHOOSE k \in 1..Len(q) : q[k] = x /\ \A j \in 1..(k - 1) : q[j] # x
  IN SubSeq(q, 1, i - 1) \o SubSeq(q, i + 1, Len(q))

(***************************************************************************)
(* open / close / write                                                    *)
(***************************************************************************)
open(s) == [s EXCEPT !.output = "open", !.trace = <<>>]

close(s) == [s EXCEPT !.output = "None"]

write(s, msg) ==
  IF s.output = "None" THEN Raise(s) ELSE [s EXCEPT !.trace = Append(@, msg)]

write_event_to_trace(s, event) == write(s, event)

RECURSIVE WriteAll(_, _)
\* for i in queue: self.write_event_to_trace(i)
WriteAll(s, q) ==
  IF q = <<>> \/ s.exc THEN s ELSE WriteAll(write_event_to_trace(s, Head(q)), Tail(q))

(***************************************************************************)
(* Switch helper functions                                                 *)
(***************************************************************************)
is_switch_event_started(s, dpid) == s.started_switch_event[dpid] # NoEvent

\* a Begin on a dpid with a started handle puts the new handle in its place
start_switch_event_replaces(s, dpid, event) ==
  LET s1 == WriteAll(s, s.new_switch_events[dpid])
      s2 == [s1 EXCEPT !.new_switch_events[dpid] = <<>>]
  IN IF s1.exc THEN s1
     ELSE [s2 EXCEPT !.started_switch_event[event.dpid] = event]

start_switch_event(s, dpid, event) ==
  LET s1 == WriteAll(s, s.new_switch_events[dpid])
      s2 == [s1 EXCEPT !.new_switch_events[dpid] = <<>>]
  IN IF s1.exc THEN s1
     ELSE IF is_switch_event_started(s2, event.dpid) THEN Raise(s2)
     ELSE [s2 EXCEPT !.started_switch_event[event.dpid] = event]

finish_switch_event(s, dpid) ==
  IF ~is_switch_event_started(s, dpid) THEN Raise(s)
  ELSE LET s1 == write_event_to_trace(s, s.started_switch_event[dpid])
           s2 == [s1 EXCEPT !.started_switch_event[dpid] = NoEvent]
           s3 == WriteAll(s2, s2.new_switch_events[dpid])
       IN IF s1.exc THEN s1
          ELSE IF s3.exc THEN s3
          ELSE [s3 EXCEPT !.new_switch_events[dpid] = <<>>]

add_operation_to_switch_event(s, op) ==
  IF is_switch_event_started(s, op.dpid)
  THEN [s EXCEPT !.started_switch_event[op.dpid].operations = Append(@, op)]
  ELSE s

\* the successor queued without its in-tag entering the handle's out lists
add_successor_to_switch_event_unlinked(s, event, mid_in, pid_in) ==
  IF is_switch_event_started(s, event.dpid)
  THEN [s EXCEPT !.new_switch_events[event.dpid] = Append(@, event)]
  ELSE write_event_to_trace(s, event)

add_successor_to_switch_event(s, event, mid_in, pid_in) ==
  IF is_switch_event_started(s, event.dpid)
  THEN LET s1 == IF mid_in # None
                 THEN [s EXCEPT !.started_switch_event[event.dpid].mid_out = Append(@, mid_in)]
                 ELSE s
           s2 == IF pid_in # None
                 THEN [s1 EXCEPT !.started_switch_event[event.dpid].pid_out = Append(@, pid_in)]
                 ELSE s1
       IN [s2 EXCEPT !.new_switch_events[event.dpid] = Append(@, event)]
  ELSE write_event_to_trace(s, event)

(***************************************************************************)
(* Host helper functions                                                   *)
(***************************************************************************)
is_host_event_started(s, hid) == s.started_host_event[hid] # NoEvent

start_host_event(s, hid, event) ==
  LET s1 == WriteAll(s, s.new_host_events[hid])
      s2 == [s1 EXCEPT !.new_host_events[hid] = <<>>]
  IN IF s1.exc THEN s1
     ELSE IF is_host_event_started(s2, event.hid) THEN Raise(s2)
     ELSE [s2 EXCEPT !.started_host_event[event.hid] = event]

finish_host_event(s, hid) ==
  IF ~is_host_event_started(s, hid) THEN Raise(s)
  ELSE LET s1 == write_event_to_trace(s, s.started_host_event[hid])
           s2 == [s1 EXCEPT !.started_host_event[hid] = NoEvent]
           s3 == WriteAll(s2, s2.new_host_events[hid])
       IN IF s1.exc THEN s1
          ELSE IF s3.exc THEN s3
          ELSE [s3 EXCEPT !.new_host_events[hid] = <<>>]

add_successor_to_host_event(s, event, pid_in) ==
  IF is_host_event_started(s, event.hid)
  THEN LET s1 == IF pid_in # None
                 THEN [s EXCEPT !.started_host_event[event.hid].pid_out = Append(@, pid_in)]
                 ELSE s
       IN [s1 EXCEPT !.new_host_events[event.hid] = Append(@, event)]
  ELSE write_event_to_trace(s, event)

(***************************************************************************)
(* Switch events                                                           *)
(***************************************************************************)
handle_switch_ph_begin(s, dpid, packet) ==
  LET r == get_tag(s.pids, packet)
      s1 == [s EXCEPT !.pids = r.reg]
      begin_event == HbPacketHandle(NextEid(s1), r.ret, dpid, packet)
  IN start_switch_event(TakeEid(s1), dpid, begin_event)

handle_switch_ph_end(s, dpid) == finish_switch_event(s, dpid)

handle_switch_mh_end(s, dpid) == finish_switch_event(s, dpid)

handle_switch_ms(s, dpid, msg) ==
  LET r1 == new_tag(s.mids, msg)
      r2 == new_tag(r1.reg, msg)
      s1 == [s EXCEPT !.mids = remove_obj(r2.reg, msg)]
      new_event == HbMessageSend(NextEid(s1), r1.ret, r2.ret, dpid, msg)
      s2 == add_successor_to_switch_event(TakeEid(s1), new_event, r1.ret, None)
  IN IF s2.exc THEN s2
     ELSE [s2 EXCEPT !.unmatched_HbMessageSend[dpid] =
                       Append(@, <<r2.ret, base64_encode(msg)>>)]

\* the send keeps the tag the packet arrived with as its pid_in
handle_switch_ps_keeps_tag(s, dpid, packet) ==
  LET r1 == get_tag(s.pids, packet)
      r2 == new_tag(r1.reg, packet)
      s1 == [s EXCEPT !.pids = r2.reg]
      new_event == HbPacketSend(NextEid(s1), r1.ret, r2.ret, dpid, packet)
  IN add_successor_to_switch_event(TakeEid(s1), new_event, None, r1.ret)

handle_switch_ps(s, dpid, packet) ==
  LET r1 == new_tag(s.pids, packet)
      r2 == new_tag(r1.reg, packet)
      s1 == [s EXCEPT !.pids = r2.reg]
      new_event == HbPacketSend(NextEid(s1), r1.ret, r2.ret, dpid, packet)
  IN add_successor_to_switch_event(TakeEid(s1), new_event, None, r1.ret)

(***************************************************************************)
(* Switch operation events                                                 *)
(***************************************************************************)
\* a Trace* operation event as the simulator hands it over
TraceOp(type, dpid, packet, flow_mod) ==
  [type |-> type, dpid |-> dpid, packet |-> packet, flow_mod |-> flow_mod]

handle_switch_table_read(s, op) == add_operation_to_switch_event(s, op)

handle_switch_table_write(s, op) == add_operation_to_switch_event(s, op)

handle_switch_table_entry_expiry(s, op) == add_operation_to_switch_event(s, op)

\* the operation appended without a pid_out allocated for the buffered packet
handle_switch_buf_put_no_pid_out(s, op) ==
  IF is_switch_event_started(s, op.dpid)
  THEN IF s.started_switch_event[op.dpid].type # "HbPacketHandle" THEN Raise(s)
       ELSE LET r == get_tag(s.pids, op.packet)
                s1 == [s EXCEPT !.pids = r.reg]
            IN IF r.ret # s1.started_switch_event[op.dpid].pid_in THEN Raise(s1)
               ELSE add_operation_to_switch_event(s1, op)
  ELSE add_operation_to_switch_event(s, op)

\* the pid_out for the buffer write is generated before the started handle is
\* looked up
handle_switch_buf_put_tags_first(s, op) ==
  LET r2 == new_tag(s.pids, op.packet)
  IN IF is_switch_event_started(s, op.dpid)
     THEN IF s.started_switch_event[op.dpid].type # "HbPacketHandle" THEN Raise(s)
          ELSE LET r == get_tag(s.pids, op.packet)
                   s1 == [s EXCEPT !.pids = r.reg]
                   r3 == new_tag(s1.pids, op.packet)
                   s2 == [s1 EXCEPT !.pids = r3.reg,
                                    !.started_switch_event[op.dpid].pid_out = Append(@, r3.ret)]
               IN IF r.ret # s1.started_switch_event[op.dpid].pid_in THEN Raise(s1)
                  ELSE add_operation_to_switch_event(s2, op)
     ELSE add_operation_to_switch_event([s EXCEPT !.pids = r2.reg], op)

handle_switch_buf_put(s, op) ==
  IF is_switch_event_started(s, op.dpid)
  THEN IF s.started_switch_event[op.dpid].type # "HbPacketHandle" THEN Raise(s)
       ELSE LET r == get_tag(s.pids, op.packet)
                s1 == [s EXCEPT !.pids = r.reg]
                r2 == new_tag(s1.pids, op.packet)
                s2 == [s1 EXCEPT !.pids = r2.reg,
                                 !.started_switch_event[op.dpid].pid_out = Append(@, r2.ret)]
            IN IF r.ret # s1.started_switch_event[op.dpid].pid_in THEN Raise(s1)
               ELSE add_operation_to_switch_event(s2, op)
  ELSE add_operation_to_switch_event(s, op)

\* the kind of the started handle is not asserted
handle_switch_buf_get_any_handle(s, op) ==
  IF is_switch_event_started(s, op.dpid)
  THEN LET r == get_tag(s.pids, op.packet)
           s1 == [s EXCEPT !.pids = r.reg,
                           !.started_switch_event[op.dpid].pid_in = r.ret]
       IN add_operation_to_switch_event(s1, op)
  ELSE add_operation_to_switch_event(s, op)

handle_switch_buf_get(s, op) ==
  IF is_switch_event_started(s, op.dpid)
  THEN IF s.started_switch_event[op.dpid].type # "HbMessageHandle" THEN Raise(s)
       ELSE LET r == get_tag(s.pids, op.packet)
                s1 == [s EXCEPT !.pids = r.reg,
                                !.started_switch_event[op.dpid].pid_in = r.ret]
            IN add_operation_to_switch_event(s1, op)
  ELSE add_operation_to_switch_event(s, op)

(***************************************************************************)
(* Switch bookkeeping operations                                           *)
(***************************************************************************)
handle_switch_pu_begin(s, dpid, packet) ==
  LET r == get_tag(s.pids, packet)
  IN [s EXCEPT !.pids = r.reg, !.pending_packet_update[dpid] = r.ret]

\* the updated packet given a tag of its own, not the pending one
handle_switch_pu_end_retags(s, dpid, packet) ==
  IF s.pending_packet_update[dpid] = None THEN Raise(s)
  ELSE [s EXCEPT !.pids = new_tag(s.pids, packet).reg]

handle_switch_pu_end(s, dpid, packet) ==
  IF s.pending_packet_update[dpid] = None THEN Raise(s)
  ELSE LET r == replace_obj(s.pids, s.pending_packet_update[dpid], packet)
       IN IF r.ok THEN [s EXCEPT !.pids = r.reg] ELSE Raise(s)

(***************************************************************************)
(* Host events                                                             *)
(***************************************************************************)
handle_host_ph_begin(s, hid, packet) ==
  LET r == get_tag(s.pids, packet)
      s1 == [s EXCEPT !.pids = r.reg]
      begin_event == HbHostHandle(NextEid(s1), r.ret, hid, packet)
  IN start_host_event(TakeEid(s1), hid, begin_event)

handle_host_ph_end(s, hid) == finish_host_event(s, hid)

handle_host_ps(s, hid, packet) ==
  LET r1 == new_tag(s.pids, packet)
      r2 == new_tag(r1.reg, packet)
      s1 == [s EXCEPT !.pids = r2.reg]
      new_event == HbHostSend(NextEid(s1), r1.ret, r2.ret, hid, packet)
  IN add_successor_to_host_event(TakeEid(s1), new_event, r1.ret)

(***************************************************************************)
(* Controller instrumentation information                                  *)
(***************************************************************************)
RECURSIVE SortedSeq(_)
\* iteration order of a dict keyed by small integers
SortedSeq(S) ==
  IF S = {} THEN <<>>
  ELSE LET m == CHOOSE x \in S : \A y \in S : x <= y IN <<m>> \o SortedSeq(S \ {m})

\* the tuples of queue q whose message is b64msg, in queue order
Matching(q, b64msg) == SelectSeq(q, LAMBDA t : t[2] = b64msg)

\* the temporary tag taken as the last tag handed out, not a fresh one
add_controller_hb_edge_stale_tag(s, mid_out, mid_in) ==
  LET temporary_tag == s.mids.counter
      e1 == HbControllerHandle(NextEid(s), mid_out, temporary_tag)
      s2 == write_event_to_trace(TakeEid(s), e1)
      e2 == HbControllerSend(NextEid(s2), temporary_tag, mid_in)
  IN IF s2.exc THEN s2 ELSE write_event_to_trace(TakeEid(s2), e2)

add_controller_hb_edge(s, mid_out, mid_in) ==
  LET r == generate_unused_tag(s.mids)
      s1 == [s EXCEPT !.mids = r.reg]
      e1 == HbControllerHandle(NextEid(s1), mid_out, r.ret)
      s2 == write_event_to_trace(TakeEid(s1), e1)
      e2 == HbControllerSend(NextEid(s2), r.ret, mid_in)
  IN IF s2.exc THEN s2 ELSE write_event_to_trace(TakeEid(s2), e2)

\* the binding of swid is not consulted: the dpids without a swid are scanned
\* on every lookup
find_controller_packet_in_rescans(s, swid, b64msg) ==
  IF s.controller_msgin_to_mid_out[<<swid, b64msg>>] # None
  THEN Return(s, s.controller_msgin_to_mid_out[<<swid, b64msg>>])
  ELSE LET found == SelectSeq(SortedSeq(Dpids), LAMBDA d :
                      /\ s.dpid_to_swid[d] = None
                      /\ Matching(s.unmatched_HbMessageSend[d], b64msg) # <<>>)
       IN IF found = <<>> THEN Return(s, None)
          ELSE LET dpid_key == Head(found)
                   t == Head(Matching(s.unmatched_HbMessageSend[dpid_key], b64msg))
               IN Return([s EXCEPT !.swid_to_dpid[swid] = dpid_key,
                                   !.dpid_to_swid[dpid_key] = swid,
                                   !.unmatched_HbMessageSend[dpid_key] = RemoveFirst(@, t)],
                         t[1])

find_controller_packet_in(s, swid, b64msg) ==
  IF s.controller_msgin_to_mid_out[<<swid, b64msg>>] # None
  THEN Return(s, s.controller_msgin_to_mid_out[<<swid, b64msg>>])
  ELSE LET dpid == s.swid_to_dpid[swid] IN
    IF dpid # None /\ s.dpid_to_swid[dpid] # swid THEN Raise(s)
    ELSE IF dpid = None
    THEN LET found == SelectSeq(SortedSeq(Dpids), LAMBDA d :
                        /\ s.dpid_to_swid[d] = None
                        /\ Matching(s.unmatched_HbMessageSend[d], b64msg) # <<>>)
         IN IF found = <<>> THEN Return(s, None)
            ELSE LET dpid_key == Head(found)
                     t == Head(Matching(s.unmatched_HbMessageSend[dpid_key], b64msg))
                 IN Return([s EXCEPT !.swid_to_dpid[swid] = dpid_key,
                                     !.dpid_to_swid[dpid_key] = swid,
                                     !.unmatched_HbMessageSend[dpid_key] = RemoveFirst(@, t)],
                           t[1])
    ELSE LET m == Matching(s.unmatched_HbMessageSend[dpid], b64msg)
         IN IF m = <<>> THEN Return(s, None)
            ELSE Return([s EXCEPT !.unmatched_HbMessageSend[dpid] = RemoveFirst(@, Head(m))],
                        Head(m)[1])

\* the matched inbound entry left in the queue
find_controller_packet_out_keeps_entry(s, swid, b64msg) ==
  LET dpid == s.swid_to_dpid[swid] IN
    IF dpid # None /\ s.dpid_to_swid[dpid] # swid THEN Raise(s)
    ELSE IF dpid = None
    THEN LET found == SelectSeq(SortedSeq(Dpids), LAMBDA d :
                        /\ s.dpid_to_swid[d] = None
                        /\ Matching(s.unmatched_HbMessageHandle[d], b64msg) # <<>>)
         IN IF found = <<>> THEN Return(s, None)
            ELSE LET dpid_key == Head(found)
                     t == Head(Matching(s.unmatched_HbMessageHandle[dpid_key], b64msg))
                 IN Return([s EXCEPT !.swid_to_dpid[swid] = dpid_key,
                                     !.dpid_to_swid[dpid_key] = swid],
                           t[1])
    ELSE LET m == Matching(s.unmatched_HbMessageHandle[dpid], b64msg)
         IN IF m = <<>> THEN Return(s, None)
            ELSE Return(s, Head(m)[1])

find_controller_packet_out(s, swid, b64msg) ==
  LET dpid == s.swid_to_dpid[swid] IN
    IF dpid # None /\ s.dpid_to_swid[dpid] # swid THEN Raise(s)
    ELSE IF dpid = None
    THEN LET found == SelectSeq(SortedSeq(Dpids), LAMBDA d :
                        /\ s.dpid_to_swid[d] = None
                        /\ Matching(s.unmatched_HbMessageHandle[d], b64msg) # <<>>)
         IN IF found = <<>> THEN Return(s, None)
            ELSE LET dpid_key == Head(found)
                     t == Head(Matching(s.unmatched_HbMessageHandle[dpid_key], b64msg))
                 IN Return([s EXCEPT !.swid_to_dpid[swid] = dpid_key,
                                     !.dpid_to_swid[dpid_key] = swid,
                                     !.unmatched_HbMessageHandle[dpid_key] = RemoveFirst(@, t)],
                           t[1])
    ELSE LET m == Matching(s.unmatched_HbMessageHandle[dpid], b64msg)
         IN IF m = <<>> THEN Return(s, None)
            ELSE Return([s EXCEPT !.unmatched_HbMessageHandle[dpid] = RemoveFirst(@, Head(m))],
                        Head(m)[1])

\* the assertion compiled away: an unknown in-message is passed over
controller_ack_in_no_assert(s, swid, b64msg) ==
  LET s1 == find_controller_packet_in(s, swid, b64msg)
  IN IF s1.exc THEN s1
     ELSE IF s1.ret = None THEN s1
     ELSE [s1 EXCEPT !.controller_msgin_to_mid_out[<<swid, b64msg>>] = s1.ret]

controller_ack_in(s, swid, b64msg) ==
  LET s1 == find_controller_packet_in(s, swid, b64msg)
  IN IF s1.exc THEN s1
     ELSE IF s1.ret = None THEN Raise(s1)
     ELSE [s1 EXCEPT !.controller_msgin_to_mid_out[<<swid, b64msg>>] = s1.ret]

controller_ack_out(s, in_swid, in_b64msg, out_swid, out_b64msg) ==
  LET s1 == find_controller_packet_in(s, in_swid, in_b64msg)
      s2 == find_controller_packet_out(s1, out_swid, out_b64msg)
  IN IF s1.exc THEN s1
     ELSE IF s1.ret = None THEN Raise(s1)
     ELSE IF s2.exc THEN s2
     ELSE IF s2.ret = None
     THEN [s2 EXCEPT !.unmatched_lines_controller_msgout =
                        Append(@, <<in_swid, in_b64msg, out_swid, out_b64msg>>)]
     ELSE add_controller_hb_edge(s2, s1.ret, s2.ret)

\* self.find_controller_packet_in(self, lin_swid, lin_b64msg): a bound method
\* called with one positional argument too many raises TypeError
find_controller_packet_in_extra_arg(s, extra, swid, b64msg) == Raise(s)

\* the lines of the buffered list whose out-message is out_b64msg
LinesFor(s, out_b64msg) ==
  SelectSeq(s.unmatched_lines_controller_msgout, LAMBDA l : l[4] = out_b64msg)

RECURSIVE BindAll(_, _, _)
\* the swid mappings assigned for each matching line in turn
BindAll(s, dpid, lines) ==
  IF lines = <<>> THEN s
  ELSE BindAll([s EXCEPT !.dpid_to_swid[dpid] = Head(lines)[3],
                         !.swid_to_dpid[Head(lines)[3]] = dpid], dpid, Tail(lines))

match_unmatched_controller_msgout(s, mid_in, dpid, out_b64msg) ==
  LET swid0 == s.dpid_to_swid[dpid]
      lines == LinesFor(s, out_b64msg)
      \* both loops run to the end of the list: the last matching line is kept
      matched_line == IF lines = <<>> THEN <<>> ELSE lines[Len(lines)]
      s1 == IF swid0 = None THEN BindAll(s, dpid, lines) ELSE s
  IN IF swid0 # None /\ s.swid_to_dpid[swid0] # dpid THEN Raise(s)
     ELSE IF matched_line = <<>> THEN Return(s1, None)
     ELSE LET s2 == [s1 EXCEPT !.unmatched_lines_controller_msgout =
                                  RemoveFirst(@, matched_line)]
              s3 == find_controller_packet_in_extra_arg(s2, "self", matched_line[1],
                                                        matched_line[2])
          IN IF s3.exc THEN s3
             ELSE IF s3.ret = None THEN Raise(s3)
             ELSE Return(add_controller_hb_edge(s3, s3.ret, mid_in), 1)

handle_switch_mh_begin(s, dpid, msg) ==
  LET r == get_tag(s.mids, msg)
      s1 == [s EXCEPT !.mids = r.reg]
      begin_event == HbMessageHandle(NextEid(s1), r.ret, dpid, msg)
      s2 == start_switch_event(TakeEid(s1), dpid, begin_event)
      s3 == match_unmatched_controller_msgout(s2, r.ret, dpid, base64_encode(msg))
  IN IF s2.exc THEN s2
     ELSE IF s3.exc THEN s3
     ELSE IF s3.ret = None
     THEN [s3 EXCEPT !.unmatched_HbMessageHandle[dpid] =
                        Append(@, <<r.ret, base64_encode(msg)>>)]
     ELSE s3

\* a matched controller line, already split at ':' ; kind is the matched prefix
_handle_line_match(s, line) ==
  IF line[1] = "HappensBefore-MessageIn"
  THEN controller_ack_in(s, line[2], line[3])
  ELSE IF line[1] = "HappensBefore-MessageOut"
  THEN controller_ack_out(s, line[2], line[3], line[4], line[5])
  ELSE s

(***************************************************************************)
(* handle_no_exceptions: dispatch on the type of the simulator event       *)
(***************************************************************************)
Dispatch(s, e) ==
  CASE e[1] = "TraceHostPacketHandleBegin" -> handle_host_ph_begin(s, e[2], e[3])
    [] e[1] = "TraceHostPacketHandleEnd" -> handle_host_ph_end(s, e[2])
    [] e[1] = "TraceHostPacketSend" -> handle_host_ps(s, e[2], e[3])
    [] e[1] = "TraceSwitchPacketHandleBegin" -> handle_switch_ph_begin(s, e[2], e[3])
    [] e[1] = "TraceSwitchPacketHandleEnd" -> handle_switch_ph_end(s, e[2])
    [] e[1] = "TraceSwitchMessageHandleBegin" -> handle_switch_mh_begin(s, e[2], e[3])
    [] e[1] = "TraceSwitchMessageHandleEnd" -> handle_switch_mh_end(s, e[2])
    [] e[1] = "TraceSwitchMessageSend" -> handle_switch_ms(s, e[2], e[3])
    [] e[1] = "TraceSwitchPacketSend" -> handle_switch_ps(s, e[2], e[3])
    [] e[1] = "TraceSwitchFlowTableRead" ->
         handle_switch_table_read(s, TraceOp(e[1], e[2], e[3], e[4]))
    [] e[1] = "TraceSwitchFlowTableWrite" ->
         handle_switch_table_write(s, TraceOp(e[1], e[2], e[3], e[4]))
    [] e[1] = "TraceSwitchFlowTableEntryExpiry" ->
         handle_switch_table_entry_expiry(s, TraceOp(e[1], e[2], e[3], e[4]))
    [] e[1] = "TraceSwitchBufferPut" -> handle_switch_buf_put(s, TraceOp(e[1], e[2], e[3], e[4]))
    [] e[1] = "TraceSwitchBufferGet" -> handle_switch_buf_get(s, TraceOp(e[1], e[2], e[3], e[4]))
    [] e[1] = "TraceSwitchPacketUpdateBegin" -> handle_switch_pu_begin(s, e[2], e[3])
    [] e[1] = "TraceSwitchPacketUpdateEnd" -> handle_switch_pu_end(s, e[2], e[3])
    [] OTHER -> s

\* the except clause prints the stack and returns: the caller sees no exception
handle_no_exceptions(s, e) ==
  IF s.output # "None" THEN Fields(Dispatch(s, e)) ELSE s

(***************************************************************************)
(* The simulator thread: one callback runs to completion per step.         *)
(***************************************************************************)
FlowMods == {"x", "y"}

ThreadIdle == [pc |-> "idle"]

\* the HB graph (hb_graph): events keyed by eid, edges <<src, dst, rel>>
EmptyGraph == [events |-> <<>>, g |-> {}]

\* RaceDetector.__init__
RaceDetector(graph, filter_rw) ==
  [graph |-> graph, filter_rw |-> filter_rw, detected |-> FALSE,
   read_operations |-> <<>>, write_operations |-> <<>>,
   races_harmful |-> <<>>, races_commute |-> <<>>,
   racing_events |-> {}, racing_events_harmful |-> {},
   total_operations |-> 0, total_harmful |-> 0, total_commute |-> 0,
   total_filtered |-> 0, total_races |-> 0,
   \* an AssertionError has left detection
   exc |-> FALSE]

\* a callback creates at most this many Hb events
Creates(e) ==
  IF e[1] \in {"TraceHostPacketHandleBegin", "TraceHostPacketSend",
               "TraceSwitchPacketHandleBegin", "TraceSwitchMessageHandleBegin",
               "TraceSwitchMessageSend", "TraceSwitchPacketSend"}
  THEN 1 ELSE 0

IsOperation(e) ==
  e[1] \in {"TraceSwitchFlowTableRead", "TraceSwitchFlowTableWrite",
            "TraceSwitchFlowTableEntryExpiry", "TraceSwitchBufferPut",
            "TraceSwitchBufferGet"}

\* the model's bounds on what the simulator delivers
WithinBounds(e, maxEid) ==
  /\ eid_counter + Creates(e) <= maxEid
  /\ IsOperation(e) /\ started_switch_event[e[2]] # NoEvent
       => Len(started_switch_event[e[2]].operations) < MaxOps

\* the thread is recorded when the step changed a field of the Logger
Mutated(s, thread) ==
  mutators' = IF Fields(s) # Cur THEN mutators \cup {thread} ELSE mutators

\* the outcome of a handler written back, by the thread that ran it
Step(s, thread) == Commit(s) /\ Mutated(s, thread)

\* a simulator callback delivered to the listener handle_no_exceptions
Simulator(e, maxEid) ==
  /\ sim.pc = "idle"
  /\ WithinBounds(e, maxEid)
  /\ LET s == handle_no_exceptions(Cur, e) IN Step(s, "simulator")
  /\ UNCHANGED <<reader, sim, rd>>

Open ==
  /\ output = "None"
  /\ trace = <<>>
  /\ sim.pc = "idle"
  /\ Commit(open(Cur))
  /\ UNCHANGED <<reader, sim, mutators, rd>>

PacketHandleBegin == \E d \in Dpids, p \in Packets : Simulator(<<"TraceSwitchPacketHandleBegin", d, p>>, MaxEid)
PacketHandleEnd == \E d \in Dpids : Simulator(<<"TraceSwitchPacketHandleEnd", d>>, MaxEid)
MessageHandleBegin == \E d \in Dpids, m \in InMsgs : Simulator(<<"TraceSwitchMessageHandleBegin", d, m>>, MaxEid)
MessageHandleEnd == \E d \in Dpids : Simulator(<<"TraceSwitchMessageHandleEnd", d>>, MaxEid)
MessageSend == \E d \in Dpids, m \in OutMsgs : Simulator(<<"TraceSwitchMessageSend", d, m>>, MaxEid)
PacketSend == \E d \in Dpids, p \in Packets : Simulator(<<"TraceSwitchPacketSend", d, p>>, MaxEid)
HostPacketHandleBegin == \E h \in Hids, p \in Packets : Simulator(<<"TraceHostPacketHandleBegin", h, p>>, MaxEid)
HostPacketHandleEnd == \E h \in Hids : Simulator(<<"TraceHostPacketHandleEnd", h>>, MaxEid)
HostPacketSend == \E h \in Hids, p \in Packets : Simulator(<<"TraceHostPacketSend", h, p>>, MaxEid)

Init ==
  /\ InitLogger
  /\ reader = ThreadIdle
  /\ sim = ThreadIdle
  /\ mutators = {}
  /\ rd = RaceDetector(EmptyGraph, FALSE)

\* Handles and their successors, on switches and hosts.
Next ==
  \/ Open
  \/ PacketHandleBegin
  \/ PacketHandleEnd
  \/ MessageHandleBegin
  \/ MessageHandleEnd
  \/ MessageSend
  \/ PacketSend
  \/ HostPacketHandleBegin
  \/ HostPacketHandleEnd
  \/ HostPacketSend

Spec == Init /\ [][Next]_vars

(***************************************************************************)
(* The Hb events the Logger has created so far.                            *)
(***************************************************************************)
Range(q) == {q[i] : i \in 1..Len(q)}

RECURSIVE Flatten(_)
Flatten(qs) == IF qs = <<>> THEN <<>> ELSE Head(qs) \o Flatten(Tail(qs))

StartedHandles ==
  {started_switch_event[d] : d \in Dpids} \cup {started_host_event[h] : h \in Hids}

\* every Hb event the Logger holds or has written
AllEvents ==
  (Range(trace) \cup StartedHandles \cup Range(Flatten(new_switch_events))
     \cup Range(Flatten(new_host_events))) \ {NoEvent}

\* the HbMessageSend events logged for switch dpid with bytes b64msg
LoggedSends(dpid, b64msg) ==
  {e \in AllEvents : e.type = "HbMessageSend" /\ e.dpid = dpid /\ e.msg = b64msg}

(***************************************************************************)
(* The controller's line reader (procutils._prefix_thread): match_line     *)
(* raises PrefixThreadLineMatch and the listener _handle_line_match runs   *)
(* in the raising thread.  An exception leaves run() and ends the thread.  *)
(***************************************************************************)
MsgInLines == {<<"HappensBefore-MessageIn", w, b>> : w \in Swids, b \in OutBytes}
MsgOutLines ==
  {<<"HappensBefore-MessageOut", w, b, w2, b2>> :
     w \in Swids, b \in OutBytes, w2 \in Swids, b2 \in InBytes}

\* the datapath the controller knows as swid
DpidOfSwid(swid) == swid - 10

\* the controller prints a line about an in-message only after the switch
\* has sent it, and the model bounds what a line may add
LineWithinBounds(line) ==
  /\ LoggedSends(DpidOfSwid(line[2]), line[3]) # {}
  /\ line[1] = "HappensBefore-MessageOut" =>
       Len(unmatched_lines_controller_msgout) < MaxLines

\* a whole line handled without preemption
ReadLine(line) ==
  /\ reader.pc = "idle"
  /\ sim.pc = "idle"
  /\ LineWithinBounds(line)
  /\ LET s == _handle_line_match(Cur, line)
     IN /\ Step(Fields(s), "reader")
        /\ reader' = IF s.exc THEN [pc |-> "dead"] ELSE reader
  /\ UNCHANGED <<sim, rd>>

MessageInLine == \E line \in MsgInLines : ReadLine(line)
MessageOutLine == \E line \in MsgOutLines : ReadLine(line)

CtlMessageSend == \E d \in Dpids, m \in OutMsgs : Simulator(<<"TraceSwitchMessageSend", d, m>>, MaxCtlEid)
CtlMessageHandleBegin == \E d \in Dpids, m \in InMsgs : Simulator(<<"TraceSwitchMessageHandleBegin", d, m>>, MaxCtlEid)
CtlMessageHandleEnd == \E d \in Dpids : Simulator(<<"TraceSwitchMessageHandleEnd", d>>, MaxCtlEid)

\* Messages between switches and controller, and the controller's lines.
NextCtl ==
  \/ Open
  \/ CtlMessageSend
  \/ CtlMessageHandleBegin
  \/ CtlMessageHandleEnd
  \/ MessageInLine
  \/ MessageOutLine

SpecCtl == Init /\ [][NextCtl]_vars

(***************************************************************************)
(* Reading the trace                                                       *)
(***************************************************************************)
\* the lines written by the step just taken
Emitted == SubSeq(trace', Len(trace) + 1, Len(trace'))

\* successor e was queued under handle h: its in-tag was linked to h
Owns(h, e) ==
  \/ /\ h.type \in {"HbPacketHandle", "HbMessageHandle"}
     /\ e.type = "HbMessageSend" /\ e.dpid = h.dpid /\ e.mid_in \in Range(h.mid_out)
  \/ /\ h.type \in {"HbPacketHandle", "HbMessageHandle"}
     /\ e.type = "HbPacketSend" /\ e.dpid = h.dpid /\ e.pid_in \in Range(h.pid_out)
  \/ /\ h.type = "HbHostHandle"
     /\ e.type = "HbHostSend" /\ e.hid = h.hid /\ e.pid_in \in Range(h.pid_out)

(***************************************************************************)
(* C1: every successor queued under a started handle is written to the     *)
(* trace after that handle, never before it: a successor in the trace has  *)
(* its handle earlier in the trace, and a handle that is still started has *)
(* none of its successors in the trace.                                    *)
(***************************************************************************)
C1_HandleBeforeSuccessors ==
  \A j \in 1..Len(trace) :
    trace[j].type \in SuccessorTypes =>
      /\ \A h \in StartedHandles : ~Owns(h, trace[j])
      /\ \A i \in 1..Len(trace) : Owns(trace[i], trace[j]) => i < j

(***************************************************************************)
(* C2: an End for a dpid/hid with a started handle writes exactly the      *)
(* handle followed by all successors queued during the handle, in arrival  *)
(* order, and leaves no started handle and an empty successor queue.       *)
(***************************************************************************)
EndWritesHandleThenSuccessors(h, started_after, queue_after) ==
  /\ Len(Emitted) = 1 + Len(h.pid_out) + Len(h.mid_out)
  /\ Emitted[1] = h
  /\ \A k \in 2..Len(Emitted) : Owns(h, Emitted[k])
  /\ \A k \in 2..(Len(Emitted) - 1) : Emitted[k].eid < Emitted[k + 1].eid
  /\ started_after = NoEvent
  /\ queue_after = <<>>

C2_EndWritesHandleThenSuccessors ==
  [][/\ \A d \in Dpids :
          /\ started_switch_event[d] # NoEvent
          /\ \/ Simulator(<<"TraceSwitchPacketHandleEnd", d>>, MaxEid)
             \/ Simulator(<<"TraceSwitchMessageHandleEnd", d>>, MaxEid)
          => EndWritesHandleThenSuccessors(started_switch_event[d],
                                           started_switch_event'[d], new_switch_events'[d])
     /\ \A h \in Hids :
          /\ started_host_event[h] # NoEvent
          /\ Simulator(<<"TraceHostPacketHandleEnd", h>>, MaxEid)
          => EndWritesHandleThenSuccessors(started_host_event[h],
                                           started_host_event'[h], new_host_events'[h])
    ]_vars

(***************************************************************************)
(* Controller matching, read from the trace                                *)
(***************************************************************************)
\* the same after the step just taken
AllEventsAfter ==
  (Range(trace') \cup {started_switch_event'[d] : d \in Dpids}
     \cup {started_host_event'[h] : h \in Hids}
     \cup Range(Flatten(new_switch_events')) \cup Range(Flatten(new_host_events')))
    \ {NoEvent}

EmittedOfType(type) == SelectSeq(Emitted, LAMBDA e : e.type = type)

(***************************************************************************)
(* C3: a MessageOut line processed before the switch's MessageHandleBegin  *)
(* for its out-message is buffered, and the later MessageHandleBegin for   *)
(* that message emits exactly one HbControllerHandle/HbControllerSend pair *)
(* that ends in the new handle's mid_in.                                   *)
(***************************************************************************)
C3_BufferedLineMatchedAtBegin ==
  [][\A d \in Dpids, m \in InMsgs :
       /\ ~is_switch_event_started(Cur, d)
       /\ \E l \in Range(unmatched_lines_controller_msgout) :
            l[3] = ControllerSwid(d) /\ l[4] = base64_encode(m)
       /\ Simulator(<<"TraceSwitchMessageHandleBegin", d, m>>, MaxCtlEid)
       => /\ Len(EmittedOfType("HbControllerHandle")) = 1
          /\ Len(EmittedOfType("HbControllerSend")) = 1
          /\ EmittedOfType("HbControllerHandle")[1].mid_out
               = <<EmittedOfType("HbControllerSend")[1].mid_in>>
          /\ EmittedOfType("HbControllerSend")[1].mid_out
               = <<started_switch_event'[d].mid_in>>
    ]_vars

(***************************************************************************)
(* C4: a MessageOut line whose two ends are resolved (the in-message by    *)
(* the outbound lookup, the out-message by an entry of the unmatched       *)
(* inbound queue) writes at once HbControllerHandle(mid_out of the         *)
(* MessageSend, T) and HbControllerSend(T, mid_in of the handle), with T   *)
(* bound to no object and used by no other event, and removes the matched  *)
(* inbound entry.                                                          *)
(***************************************************************************)
PairEmitted(in_b64msg, out_b64msg, mid_out, mid_in) ==
  /\ Len(Emitted) = 2
  /\ Emitted[1].type = "HbControllerHandle"
  /\ Emitted[2].type = "HbControllerSend"
  /\ Emitted[1].mid_in = mid_out
  /\ \E e \in AllEvents :
       e.type = "HbMessageSend" /\ e.msg = in_b64msg /\ e.mid_out = <<mid_out>>
  /\ Emitted[2].mid_out = <<mid_in>>
  /\ \E d \in Dpids :
       /\ \E h \in AllEvents :
            h.type = "HbMessageHandle" /\ h.dpid = d /\ h.msg = out_b64msg /\ h.mid_in = mid_in
       /\ <<mid_in, out_b64msg>> \in Range(unmatched_HbMessageHandle[d])
       /\ unmatched_HbMessageHandle'[d]
            = RemoveFirst(unmatched_HbMessageHandle[d], <<mid_in, out_b64msg>>)
       /\ \A d2 \in Dpids \ {d} : unmatched_HbMessageHandle'[d2] = unmatched_HbMessageHandle[d2]
  /\ LET T == Emitted[2].mid_in
     IN /\ Emitted[1].mid_out = <<T>>
        /\ \A o \in DOMAIN mids'.tag : mids'.tag[o] # T
        /\ \A e \in AllEventsAfter \ {Emitted[1], Emitted[2]} :
             e.mid_in # T /\ T \notin Range(e.mid_out)

C4_ResolvedLineEmitsPair ==
  [][\A line \in MsgOutLines :
       LET s1 == find_controller_packet_in(Cur, line[2], line[3])
           s2 == find_controller_packet_out(s1, line[4], line[5])
       IN /\ ~s1.exc /\ s1.ret # None
          /\ ~s2.exc /\ s2.ret # None
          /\ ReadLine(line)
          => PairEmitted(line[3], line[5], s1.ret, s2.ret)
    ]_vars

\* a resolved MessageOut line has just been processed
C4_W_PairWritten ==
  /\ Len(trace) >= 2
  /\ trace[Len(trace) - 1].type = "HbControllerHandle"
  /\ trace[Len(trace)].type = "HbControllerSend"
  /\ \E d \in Dpids : started_switch_event[d] # NoEvent
                      /\ started_switch_event[d].type = "HbMessageHandle"
                      /\ trace[Len(trace)].mid_out = <<started_switch_event[d].mid_in>>

(***************************************************************************)
(* C5: once a MessageSend on a switch has logged a message, the outbound   *)
(* lookup for that switch and those bytes returns the mid_out of a logged   *)
(* send of those bytes and never None, whatever lines were processed       *)
(* before.                                                                 *)
(***************************************************************************)
C5_OutboundLookupSucceeds ==
  \A d \in Dpids, b \in OutBytes :
    LoggedSends(d, b) # {} =>
      LET s1 == find_controller_packet_in(Cur, ControllerSwid(d), b)
      IN /\ ~s1.exc
         /\ s1.ret # None
         /\ \E d2 \in Dpids : \E e \in LoggedSends(d2, b) : e.mid_out = <<s1.ret>>

(***************************************************************************)
(* The reader thread and the simulator thread interleaved.  The reader     *)
(* can be preempted between the two writes of add_controller_hb_edge; a    *)
(* simulator callback runs in between.                                     *)
(***************************************************************************)
ThreadDead == [pc |-> "dead"]

\* the line handler up to and including the first write of a pair
ReaderStart(line) ==
  /\ reader.pc = "idle"
  /\ LineWithinBounds(line)
  /\ LET s == _handle_line_match(Cur, line)
         wrote_pair == ~s.exc /\ Len(s.trace) = Len(trace) + 2
         first == [s EXCEPT !.trace = SubSeq(@, 1, Len(@) - 1), !.eid_counter = @ - 1]
         second == s.trace[Len(s.trace)]
     IN IF wrote_pair
        THEN /\ Step(Fields(first), "reader")
             /\ reader' = [pc |-> "pair", temporary_tag |-> second.mid_in,
                           mid_in |-> second.mid_out[1]]
        ELSE /\ Step(Fields(s), "reader")
             /\ reader' = IF s.exc THEN ThreadDead ELSE reader
  /\ UNCHANGED <<sim, rd>>

\* the second write of the pair
ReaderFinish ==
  /\ reader.pc = "pair"
  /\ LET event == HbControllerSend(NextEid(Cur), reader.temporary_tag, reader.mid_in)
         s == write_event_to_trace(TakeEid(Cur), event)
     IN /\ Step(Fields(s), "reader")
        /\ reader' = IF s.exc THEN ThreadDead ELSE ThreadIdle
  /\ UNCHANGED <<sim, rd>>

ReaderStartIn == \E line \in MsgInLines : ReaderStart(line)
ReaderStartOut == \E line \in MsgOutLines : ReaderStart(line)

NextThreads ==
  \/ Open
  \/ CtlMessageSend
  \/ CtlMessageHandleBegin
  \/ CtlMessageHandleEnd
  \/ ReaderStartIn
  \/ ReaderStartOut
  \/ ReaderFinish

SpecThreads == Init /\ [][NextThreads]_vars

(***************************************************************************)
(* C6: the Logger's state is mutated only on the Logger thread, the one    *)
(* that delivers the simulator's callbacks; a matched controller line is   *)
(* not processed on the reader thread.                                     *)
(***************************************************************************)
C6_MutatedOnLoggerThreadOnly == mutators \subseteq {"simulator"}

(***************************************************************************)
(* C7: in the trace every HbControllerHandle is immediately followed by    *)
(* the HbControllerSend that shares its temporary tag; while the pair is   *)
(* being written the HbControllerHandle may only be the last record.       *)
(***************************************************************************)
C7_PairAdjacent ==
  \A i \in 1..Len(trace) :
    trace[i].type = "HbControllerHandle" =>
      IF i = Len(trace) THEN reader.pc = "pair"
      ELSE /\ trace[i + 1].type = "HbControllerSend"
           /\ <<trace[i + 1].mid_in>> = trace[i].mid_out

(***************************************************************************)
(* Race Detector (hb_race_detector.py) over an HB graph.  An operation is  *)
(* named by the eid of its event and its position in event.operations.     *)
(***************************************************************************)
\* events of the graph under detection
MaxRdEvents == 3
\* edges of the graph under detection
MaxRdEdges == 2
\* flow table operations in the graph under detection
MaxRdOps == 3

Rels == {"hb", "time"}

Eids(graph) == 1..Len(graph.events)

Op(graph, ref) == graph.events[ref[1]].operations[ref[2]]

RECURSIVE Closure(_, _)
\* the nodes reached from the set S along edges of any relation
Closure(graph, S) ==
  LET S2 == S \cup {e[2] : e \in {x \in graph.g : x[1] \in S}}
  IN IF S2 = S THEN S ELSE Closure(graph, S2)

\* nx.has_path(self.graph.g, source, target)
is_reachable(r, source, target) == target \in Closure(r.graph, {source})

is_ordered(r, event, other) ==
  LET older == IF event < other THEN event ELSE other
      newer == IF event > other THEN event ELSE other
  IN is_reachable(r, newer, older) \/ is_reachable(r, older, newer)

\* nx.ancestors(g, n): the nodes with a path to n, n excluded
ancestors(r, n) == {m \in Eids(r.graph) : m # n /\ is_reachable(r, m, n)}

has_common_ancestor(r, event, other) ==
  (ancestors(r, event) \cup {event}) \cap (ancestors(r, other) \cup {other}) # {}

\* the operations of one type, event by event, in the order of the lists
OpsOfType(graph, type) ==
  Flatten([i \in Eids(graph) |->
    SelectSeq([k \in 1..Len(graph.events[i].operations) |-> <<i, k>>],
              LAMBDA ref : Op(graph, ref).type = type)])

\* every (event, operation) of the graph, in the order the loops visit them
AllOps(graph) ==
  Flatten([i \in Eids(graph) |-> [k \in 1..Len(graph.events[i].operations) |-> <<i, k>>]])

\* hasattr(i, 'packet') and hasattr(i, 'in_port'): the events that carry a
\* packet and the port it came in on
HasPacketAndInPort(event) == event.type \in {"HbPacketHandle", "HbHostHandle"}

\* assert hasattr(i, 'packet'); assert hasattr(i, 'in_port') fails for a read
FailsAssertion(graph, ref) ==
  /\ Op(graph, ref).type = "TraceSwitchFlowTableRead"
  /\ ~HasPacketAndInPort(graph.events[ref[1]])

read_ops(r) ==
  LET all == AllOps(r.graph)
      failing == {n \in 1..Len(all) : FailsAssertion(r.graph, all[n])}
      \* the operations visited before the first failing assertion
      seen == IF failing = {} THEN all
              ELSE SubSeq(all, 1, (CHOOSE n \in failing : \A m \in failing : n <= m) - 1)
  IN [r EXCEPT !.read_operations =
                  SelectSeq(seen, LAMBDA ref : Op(r.graph, ref).type = "TraceSwitchFlowTableRead"),
               !.write_operations =
                  SelectSeq(seen, LAMBDA ref : Op(r.graph, ref).type = "TraceSwitchFlowTableWrite"),
               !.exc = failing # {}]

\* the commutativity oracle (hb_comute_check): a pure function of the two
\* operations' data; flow mods over different matches commute
check_commutativity_ww(r, i, k) == Op(r.graph, i).flow_mod # Op(r.graph, k).flow_mod

check_commutativity_rw(r, i, k) == Op(r.graph, i).flow_mod # Op(r.graph, k).flow_mod

Race(rtype, i, k) ==
  [rtype |-> rtype, i_event |-> i[1], i_op |-> i[2], k_event |-> k[1], k_op |-> k[2]]

\* itertools.combinations(seq, 2)
Combinations2(seq) ==
  Flatten([i \in 1..Len(seq) |-> [j \in 1..(Len(seq) - i) |-> <<seq[i], seq[i + j]>>]])

\* the nested loops over reads and writes
Product(R, W) ==
  Flatten([i \in 1..Len(R) |-> [j \in 1..Len(W) |-> <<R[i], W[j]>>]])

\* the event argument ignored: every pair is looked at
Candidate_any_event(r, event, i, k) ==
  /\ i[1] # k[1]
  /\ r.graph.events[i[1]].dpid = r.graph.events[k[1]].dpid
  /\ ~is_ordered(r, i[1], k[1])

\* the condition under which a pair of operations is looked at further
Candidate(r, event, i, k) ==
  /\ i[1] # k[1]
  /\ event = None \/ event = i[1] \/ event = k[1]
  /\ r.graph.events[i[1]].dpid = r.graph.events[k[1]].dpid
  /\ ~is_ordered(r, i[1], k[1])

RacesOf(rtype, pairs) == [n \in 1..Len(pairs) |-> Race(rtype, pairs[n][1], pairs[n][2])]

EventsOf(pairs) == UNION {{pairs[n][1][1], pairs[n][2][1]} : n \in 1..Len(pairs)}

\* the dpid comparison dropped from the condition
detect_ww_races_any_dpid(r, event) ==
  LET pairs == SelectSeq(Combinations2(r.write_operations), LAMBDA p :
                 /\ p[1][1] # p[2][1]
                 /\ event = None \/ event = p[1][1] \/ event = p[2][1]
                 /\ ~is_ordered(r, p[1][1], p[2][1]))
      commute == SelectSeq(pairs, LAMBDA p : check_commutativity_ww(r, p[1], p[2]))
      harmful == SelectSeq(pairs, LAMBDA p : ~check_commutativity_ww(r, p[1], p[2]))
  IN [r EXCEPT !.races_commute = @ \o RacesOf("w/w", commute),
               !.races_harmful = @ \o RacesOf("w/w", harmful),
               !.racing_events_harmful = @ \cup EventsOf(harmful),
               !.racing_events = @ \cup EventsOf(pairs)]

\* every ordered pair of writes compared, not every combination of two
detect_ww_races_ordered_pairs(r, event) ==
  LET pairs == SelectSeq(Product(r.write_operations, r.write_operations),
                         LAMBDA p : Candidate(r, event, p[1], p[2]))
      commute == SelectSeq(pairs, LAMBDA p : check_commutativity_ww(r, p[1], p[2]))
      harmful == SelectSeq(pairs, LAMBDA p : ~check_commutativity_ww(r, p[1], p[2]))
  IN [r EXCEPT !.races_commute = @ \o RacesOf("w/w", commute),
               !.races_harmful = @ \o RacesOf("w/w", harmful),
               !.racing_events_harmful = @ \cup EventsOf(harmful),
               !.racing_events = @ \cup EventsOf(pairs)]

detect_ww_races(r, event) ==
  LET pairs == SelectSeq(Combinations2(r.write_operations),
                         LAMBDA p : Candidate(r, event, p[1], p[2]))
      commute == SelectSeq(pairs, LAMBDA p : check_commutativity_ww(r, p[1], p[2]))
      harmful == SelectSeq(pairs, LAMBDA p : ~check_commutativity_ww(r, p[1], p[2]))
  IN [r EXCEPT !.races_commute = @ \o RacesOf("w/w", commute),
               !.races_harmful = @ \o RacesOf("w/w", harmful),
               !.racing_events_harmful = @ \cup EventsOf(harmful),
               !.racing_events = @ \cup EventsOf(pairs)]

\* every surviving pair appended to races_harmful, whatever the oracle says
detect_rw_races_all_harmful(r, event) ==
  LET pairs == SelectSeq(Product(r.read_operations, r.write_operations),
                         LAMBDA p : Candidate(r, event, p[1], p[2]))
      filtered == SelectSeq(pairs, LAMBDA p :
                    r.filter_rw /\ ~has_common_ancestor(r, p[1][1], p[2][1]))
      kept == SelectSeq(pairs, LAMBDA p :
                    ~(r.filter_rw /\ ~has_common_ancestor(r, p[1][1], p[2][1])))
      commute == SelectSeq(kept, LAMBDA p : check_commutativity_rw(r, p[1], p[2]))
  IN [r EXCEPT !.total_filtered = @ + Len(filtered),
               !.races_commute = @ \o RacesOf("r/w", commute),
               !.races_harmful = @ \o RacesOf("r/w", kept),
               !.racing_events_harmful = @ \cup EventsOf(kept),
               !.racing_events = @ \cup EventsOf(kept)]

\* pairs without a common ancestor are filtered whether or not filter_rw is set
detect_rw_races_filter_always(r, event) ==
  LET pairs == SelectSeq(Product(r.read_operations, r.write_operations),
                         LAMBDA p : Candidate(r, event, p[1], p[2]))
      filtered == SelectSeq(pairs, LAMBDA p : ~has_common_ancestor(r, p[1][1], p[2][1]))
      kept == SelectSeq(pairs, LAMBDA p : has_common_ancestor(r, p[1][1], p[2][1]))
      commute == SelectSeq(kept, LAMBDA p : check_commutativity_rw(r, p[1], p[2]))
      harmful == SelectSeq(kept, LAMBDA p : ~check_commutativity_rw(r, p[1], p[2]))
  IN [r EXCEPT !.total_filtered = @ + Len(filtered),
               !.races_commute = @ \o RacesOf("r/w", commute),
               !.races_harmful = @ \o RacesOf("r/w", harmful),
               !.racing_events_harmful = @ \cup EventsOf(harmful),
               !.racing_events = @ \cup EventsOf(kept)]

\* the events of the filtered pairs counted as racing too
detect_rw_races_filtered_racing(r, event) ==
  LET pairs == SelectSeq(Product(r.read_operations, r.write_operations),
                         LAMBDA p : Candidate(r, event, p[1], p[2]))
      filtered == SelectSeq(pairs, LAMBDA p :
                    r.filter_rw /\ ~has_common_ancestor(r, p[1][1], p[2][1]))
      kept == SelectSeq(pairs, LAMBDA p :
                    ~(r.filter_rw /\ ~has_common_ancestor(r, p[1][1], p[2][1])))
      commute == SelectSeq(kept, LAMBDA p : check_commutativity_rw(r, p[1], p[2]))
      harmful == SelectSeq(kept, LAMBDA p : ~check_commutativity_rw(r, p[1], p[2]))
  IN [r EXCEPT !.total_filtered = @ + Len(filtered),
               !.races_commute = @ \o RacesOf("r/w", commute),
               !.races_harmful = @ \o RacesOf("r/w", harmful),
               !.racing_events_harmful = @ \cup EventsOf(harmful),
               !.racing_events = @ \cup EventsOf(pairs)]

detect_rw_races(r, event) ==
  LET pairs == SelectSeq(Product(r.read_operations, r.write_operations),
                         LAMBDA p : Candidate(r, event, p[1], p[2]))
      filtered == SelectSeq(pairs, LAMBDA p :
                    r.filter_rw /\ ~has_common_ancestor(r, p[1][1], p[2][1]))
      kept == SelectSeq(pairs, LAMBDA p :
                    ~(r.filter_rw /\ ~has_common_ancestor(r, p[1][1], p[2][1])))
      commute == SelectSeq(kept, LAMBDA p : check_commutativity_rw(r, p[1], p[2]))
      harmful == SelectSeq(kept, LAMBDA p : ~check_commutativity_rw(r, p[1], p[2]))
  IN [r EXCEPT !.total_filtered = @ + Len(filtered),
               !.races_commute = @ \o RacesOf("r/w", commute),
               !.races_harmful = @ \o RacesOf("r/w", harmful),
               !.racing_events_harmful = @ \cup EventsOf(harmful),
               !.racing_events = @ \cup EventsOf(kept)]

\* the lists and the filtered count of the previous run are kept
detect_races_accumulating(r, event) ==
  LET r2 == detect_rw_races(detect_ww_races(read_ops(r), event), event)
  IN [r2 EXCEPT !.total_operations = Len(r2.write_operations) + Len(r2.read_operations),
                !.total_harmful = Len(r2.races_harmful),
                !.total_commute = Len(r2.races_commute),
                !.total_races = Len(r2.races_harmful) + Len(r2.races_commute),
                !.detected = TRUE]

\* total_races taken from the count of operations instead of the two lists
detect_races_total_of_operations(r, event) ==
  LET r1 == [read_ops(r) EXCEPT !.races_harmful = <<>>, !.races_commute = <<>>,
                                !.racing_events = {}, !.racing_events_harmful = {},
                                !.total_filtered = 0]
      r2 == detect_rw_races(detect_ww_races(r1, event), event)
  IN [r2 EXCEPT !.total_operations = Len(r2.write_operations) + Len(r2.read_operations),
                !.total_harmful = Len(r2.races_harmful),
                !.total_commute = Len(r2.races_commute),
                !.total_races = Len(r2.write_operations) + Len(r2.read_operations),
                !.detected = TRUE]

detect_races(r, event) ==
  LET r1 == [read_ops(r) EXCEPT !.races_harmful = <<>>, !.races_commute = <<>>,
                                !.racing_events = {}, !.racing_events_harmful = {},
                                !.total_filtered = 0]
      r2 == detect_rw_races(detect_ww_races(r1, event), event)
  IN IF read_ops(r).exc THEN read_ops(r)
     ELSE
     [r2 EXCEPT !.total_operations = Len(r2.write_operations) + Len(r2.read_operations),
                !.total_harmful = Len(r2.races_harmful),
                !.total_commute = Len(r2.races_commute),
                !.total_races = Len(r2.races_harmful) + Len(r2.races_commute),
                !.detected = TRUE]

(***************************************************************************)
(* The graph is built event by event, as the trace is loaded, and is not   *)
(* changed once detection has run on it.                                   *)
(***************************************************************************)
TotalOps(graph) ==
  Len(OpsOfType(graph, "TraceSwitchFlowTableRead"))
    + Len(OpsOfType(graph, "TraceSwitchFlowTableWrite"))

\* a handle event read from the trace: packets are handled with table
\* reads, messages with table writes
add_event(type, dpid) ==
  /\ ~rd.detected
  \* the detector only compares dpids: they are numbered as they appear
  /\ \A d \in Dpids : d < dpid => \E i \in Eids(rd.graph) : rd.graph.events[i].dpid = d
  /\ Len(rd.graph.events) < MaxRdEvents
  /\ rd' = [rd EXCEPT !.graph.events = Append(@,
              IF type = "HbPacketHandle"
              THEN HbPacketHandle(Len(@) + 1, None, dpid, "p1")
              ELSE HbMessageHandle(Len(@) + 1, None, dpid, "fm1"))]
  /\ UNCHANGED <<loggerVars, reader, sim, mutators>>

\* an operation of the event read last
add_operation(flow_mod) ==
  /\ ~rd.detected
  /\ rd.graph.events # <<>>
  /\ TotalOps(rd.graph) < MaxRdOps
  /\ LET eid == Len(rd.graph.events)
         event == rd.graph.events[eid]
         type == IF event.type = "HbPacketHandle" THEN "TraceSwitchFlowTableRead"
                 ELSE "TraceSwitchFlowTableWrite"
     IN /\ Len(event.operations) < MaxOps
        /\ rd' = [rd EXCEPT !.graph.events[eid].operations =
                              Append(@, TraceOp(type, event.dpid, "p1", flow_mod))]
  /\ UNCHANGED <<loggerVars, reader, sim, mutators>>

\* an edge stands for a path between two handles: it leads from the handle
\* begun earlier to the one begun later
add_edge(src, dst, rel) ==
  /\ ~rd.detected
  /\ src < dst
  /\ Cardinality(rd.graph.g) < MaxRdEdges
  /\ \A e \in rd.graph.g : <<e[1], e[2]>> # <<src, dst>>
  /\ rd' = [rd EXCEPT !.graph.g = @ \cup {<<src, dst, rel>>}]
  /\ UNCHANGED <<loggerVars, reader, sim, mutators>>

DetectRaces(event) ==
  /\ rd' = detect_races(rd, event)
  /\ UNCHANGED <<loggerVars, reader, sim, mutators>>

AddEvent == \E type \in {"HbPacketHandle", "HbMessageHandle"}, d \in Dpids : add_event(type, d)
AddOperation == \E f \in FlowMods : add_operation(f)
AddEdge == \E src \in Eids(rd.graph), dst \in Eids(rd.graph), rel \in Rels : add_edge(src, dst, rel)
DetectAll == DetectRaces(None)
DetectEvent == \E event \in Eids(rd.graph) : DetectRaces(event)

InitRD ==
  /\ InitLogger
  /\ reader = ThreadIdle
  /\ sim = ThreadIdle
  /\ mutators = {}
  /\ rd \in {RaceDetector(EmptyGraph, f) : f \in BOOLEAN}

NextRD ==
  \/ AddEvent
  \/ AddOperation
  \/ AddEdge
  \/ DetectAll
  \/ DetectEvent

SpecRD == InitRD /\ [][NextRD]_vars

(***************************************************************************)
(* Paths of the graph, edge by edge.                                       *)
(***************************************************************************)
RECURSIVE PathWithin(_, _, _, _)
\* a directed path of at most n edges of E from u to v
PathWithin(E, u, v, n) ==
  \/ u = v
  \/ n > 0 /\ \E e \in E : e[1] = u /\ PathWithin(E, e[2], v, n - 1)

Path(E, u, v) == PathWithin(E, u, v, MaxRdEvents)

HbEdges(graph) == {e \in graph.g : e[3] = "hb"}

Refs(graph, type) ==
  {ref \in Eids(graph) \X (1..MaxOps) :
     /\ ref[2] <= Len(graph.events[ref[1]].operations)
     /\ Op(graph, ref).type = type}

WriteRefs(graph) == Refs(graph, "TraceSwitchFlowTableWrite")
ReadRefs(graph) == Refs(graph, "TraceSwitchFlowTableRead")

Reported == Range(rd.races_harmful) \cup Range(rd.races_commute)

(***************************************************************************)
(* C8: after detect_races every race in races_harmful and races_commute is *)
(* between two different handle events of the same dpid, neither of which  *)
(* reaches the other in the graph.                                         *)
(***************************************************************************)
C8_RacesUnorderedOnOneSwitch ==
  rd.detected =>
    \A race \in Reported :
      /\ race.i_event # race.k_event
      /\ rd.graph.events[race.i_event].type \in HandleTypes
      /\ rd.graph.events[race.k_event].type \in HandleTypes
      /\ rd.graph.events[race.i_event].dpid = rd.graph.events[race.k_event].dpid
      /\ ~Path(rd.graph.g, race.i_event, race.k_event)
      /\ ~Path(rd.graph.g, race.k_event, race.i_event)

\* a race was reported next to two writes of one switch that a path orders
C8_W_RaceAndOrderedWrites ==
  /\ rd.detected
  /\ rd.races_harmful # <<>>
  /\ \E i \in WriteRefs(rd.graph), k \in WriteRefs(rd.graph) :
       /\ i[1] # k[1]
       /\ rd.graph.events[i[1]].dpid = rd.graph.events[k[1]].dpid
       /\ Path(rd.graph.g, i[1], k[1])

(***************************************************************************)
(* C9: the order test uses hb edges only: reachable(u, v) holds exactly    *)
(* when a directed path of hb edges leads from u to v.                     *)
(***************************************************************************)
C9_ReachableAlongHbEdgesOnly ==
  \A u \in Eids(rd.graph), v \in Eids(rd.graph) :
    is_reachable(rd, u, v) <=> Path(HbEdges(rd.graph), u, v)

(***************************************************************************)
(* C10: a pair that survives the filters is placed in races_commute and    *)
(* not in races_harmful when the oracle returns true, in races_harmful and *)
(* not in races_commute when it returns false; no pair is in both lists.   *)
(***************************************************************************)
Survives(event, rtype, i, k) ==
  /\ i[1] # k[1]
  /\ event = None \/ event = i[1] \/ event = k[1]
  /\ rd.graph.events[i[1]].dpid = rd.graph.events[k[1]].dpid
  /\ ~Path(rd.graph.g, i[1], k[1])
  /\ ~Path(rd.graph.g, k[1], i[1])
  /\ rtype = "r/w" /\ rd.filter_rw =>
       \E m \in Eids(rd.graph) : Path(rd.graph.g, m, i[1]) /\ Path(rd.graph.g, m, k[1])

\* what the oracle returns for the two operations of a reported race
Commutes(race) ==
  IF race.rtype = "w/w"
  THEN check_commutativity_ww(rd, <<race.i_event, race.i_op>>, <<race.k_event, race.k_op>>)
  ELSE check_commutativity_rw(rd, <<race.i_event, race.i_op>>, <<race.k_event, race.k_op>>)

\* the race without its type: (event, op, event, op)
Pair(race) == <<race.i_event, race.i_op, race.k_event, race.k_op>>

Placed(races, rtype, i, k) == {Race(rtype, i, k), Race(rtype, k, i)} \cap Range(races) # {}

C10_ClassifiedByOracle ==
  rd.detected =>
    /\ \A race \in Range(rd.races_commute) : Commutes(race)
    /\ \A race \in Range(rd.races_harmful) : ~Commutes(race)
    /\ {Pair(race) : race \in Range(rd.races_commute)}
         \cap {Pair(race) : race \in Range(rd.races_harmful)} = {}
    /\ \E event \in {None} \cup Eids(rd.graph) :
         /\ \A i \in WriteRefs(rd.graph), k \in WriteRefs(rd.graph) :
              i # k /\ Survives(event, "w/w", i, k) =>
                IF check_commutativity_ww(rd, i, k)
                THEN Placed(rd.races_commute, "w/w", i, k)
                ELSE Placed(rd.races_harmful, "w/w", i, k)
         /\ \A i \in ReadRefs(rd.graph), k \in WriteRefs(rd.graph) :
              Survives(event, "r/w", i, k) =>
                IF check_commutativity_rw(rd, i, k)
                THEN Placed(rd.races_commute, "r/w", i, k)
                ELSE Placed(rd.races_harmful, "r/w", i, k)

\* detection has placed a pair in each list
C10_W_BothListsFilled ==
  /\ rd.detected
  /\ rd.races_commute # <<>>
  /\ rd.races_harmful # <<>>

(***************************************************************************)
(* C11: detect_races run again on the same graph, with the same filter_rw  *)
(* and the same event argument, yields the same lists, sets and counters   *)
(* as a run on a detector that has not run before: nothing of an earlier   *)
(* run is carried into the next.                                           *)
(***************************************************************************)
C11_DetectionIdempotent ==
  rd.detected =>
    \A event \in {None} \cup Eids(rd.graph) :
      /\ detect_races(rd, event) = detect_races(RaceDetector(rd.graph, rd.filter_rw), event)
      /\ detect_races(detect_races(rd, event), event) = detect_races(rd, event)

\* a run that reported and filtered pairs, and that a further run reproduces
C11_W_RunRepeated ==
  /\ rd.detected
  /\ rd.races_harmful # <<>>
  /\ rd.total_filtered > 0
  /\ detect_races(rd, None) = rd

(***************************************************************************)
(* C13: detect_races(event=e) reports exactly the races of                 *)
(* detect_races(event=None) on the same graph that have e as one of their  *)
(* two events, in both lists, and counts as filtered exactly the filtered  *)
(* pairs of the full run that contain e.                                   *)
(***************************************************************************)
Involves(race, e) == race.i_event = e \/ race.k_event = e

\* the read/write pairs that a run over all events counts as filtered
FilteredPairs(r) ==
  {p \in ReadRefs(r.graph) \X WriteRefs(r.graph) :
     /\ p[1][1] # p[2][1]
     /\ r.graph.events[p[1][1]].dpid = r.graph.events[p[2][1]].dpid
     /\ ~is_ordered(r, p[1][1], p[2][1])
     /\ r.filter_rw
     /\ ~has_common_ancestor(r, p[1][1], p[2][1])}

C13_EventRunRestrictsFullRun ==
  rd.detected =>
    LET fresh == RaceDetector(rd.graph, rd.filter_rw)
        full == detect_races(fresh, None)
    IN /\ full.total_filtered = Cardinality(FilteredPairs(fresh))
       /\ \A e \in Eids(rd.graph) :
            LET one == detect_races(fresh, e)
            IN /\ one.races_harmful =
                    SelectSeq(full.races_harmful, LAMBDA race : Involves(race, e))
               /\ one.races_commute =
                    SelectSeq(full.races_commute, LAMBDA race : Involves(race, e))
               /\ one.total_filtered =
                    Cardinality({p \in FilteredPairs(fresh) : e \in {p[1][1], p[2][1]}})
       /\ rd = full \/ \E e \in Eids(rd.graph) : rd = detect_races(fresh, e)

\* a run for one event that reported a race and filtered a pair, on a graph
\* where the full run filters a further pair, one without that event
C13_W_EventRunSmaller ==
  /\ rd.detected
  /\ rd.races_harmful # <<>>
  /\ rd.total_filtered > 0
  /\ detect_races(rd, None).total_filtered > rd.total_filtered

(***************************************************************************)
(* C14: with filter_rw set, a read/write pair of two different events of   *)
(* one dpid that no path orders and that have no common ancestor is in     *)
(* neither list and adds exactly one to total_filtered; without filter_rw  *)
(* total_filtered is 0 after detect_races; a write/write pair that passes  *)
(* the same filters is reported in either mode.                            *)
(***************************************************************************)
\* the pair passes the distinct-event, event-argument, same-dpid and
\* unordered filters
PassesFilters(event, i, k) ==
  /\ i[1] # k[1]
  /\ event = None \/ event = i[1] \/ event = k[1]
  /\ rd.graph.events[i[1]].dpid = rd.graph.events[k[1]].dpid
  /\ ~Path(rd.graph.g, i[1], k[1])
  /\ ~Path(rd.graph.g, k[1], i[1])

SharesAncestor(i, k) ==
  \E m \in Eids(rd.graph) : Path(rd.graph.g, m, i[1]) /\ Path(rd.graph.g, m, k[1])

InList(r, rtype, i, k) ==
  \/ Placed(r.races_harmful, rtype, i, k)
  \/ Placed(r.races_commute, rtype, i, k)

C14_FilteredCountsUnrelatedReadWrite ==
  rd.detected =>
    /\ ~rd.filter_rw => rd.total_filtered = 0
    /\ \A event \in {None} \cup Eids(rd.graph) :
         LET r == detect_races(RaceDetector(rd.graph, rd.filter_rw), event)
             unrelated == {p \in ReadRefs(rd.graph) \X WriteRefs(rd.graph) :
                             PassesFilters(event, p[1], p[2]) /\ ~SharesAncestor(p[1], p[2])}
         IN /\ r.total_filtered = IF rd.filter_rw THEN Cardinality(unrelated) ELSE 0
            /\ \A p \in unrelated : InList(r, "r/w", p[1], p[2]) <=> ~rd.filter_rw
            /\ \A i \in WriteRefs(rd.graph), k \in WriteRefs(rd.graph) :
                 i # k /\ PassesFilters(event, i, k) => InList(r, "w/w", i, k)

\* a run with filter_rw set that filtered a read/write pair and reported a
\* write/write pair whose events have no common ancestor either
C14_W_FilteredNextToWriteWrite ==
  /\ rd.detected
  /\ rd.filter_rw
  /\ rd.total_filtered > 0
  /\ \E race \in Reported :
       /\ race.rtype = "w/w"
       /\ ~SharesAncestor(<<race.i_event, race.i_op>>, <<race.k_event, race.k_op>>)

(***************************************************************************)
(* C16: after detect_races total_operations is the number of write and     *)
(* read operations, total_harmful and total_commute are the lengths of the *)
(* two lists, total_filtered is the number of filtered pairs, and          *)
(* total_races is the sum of the harmful, commuting and filtered counts.   *)
(***************************************************************************)
C16_TotalsAfterDetection ==
  rd.detected =>
    /\ rd.total_operations = Len(rd.write_operations) + Len(rd.read_operations)
    /\ rd.total_operations
         = Cardinality(WriteRefs(rd.graph)) + Cardinality(ReadRefs(rd.graph))
    /\ rd.total_harmful = Len(rd.races_harmful)
    /\ rd.total_commute = Len(rd.races_commute)
    /\ \E event \in {None} \cup Eids(rd.graph) :
         rd.total_filtered =
           Cardinality({p \in FilteredPairs(rd) : event \in {None, p[1][1], p[2][1]}})
    /\ rd.total_races = rd.total_harmful + rd.total_commute + rd.total_filtered

(***************************************************************************)
(* C17: the eids of the events in the trace are strictly increasing in the *)
(* order of writing: of two events written one after the other, the later  *)
(* one has the larger eid, also when handles of different switches or      *)
(* hosts overlap and when controller pairs are written while a handle is   *)
(* started.                                                                *)
(***************************************************************************)
C17_EidsIncreaseInTrace ==
  \A n \in 1..(Len(trace) - 1) : trace[n].eid < trace[n + 1].eid

(***************************************************************************)
(* C18: for every HbPacketSend in the trace, the event written last before *)
(* it among the events of the same dpid is the handle during which the     *)
(* send was produced, or another successor of that same handle.            *)
(***************************************************************************)
\* the event written last before trace[j] among those of the same dpid
IsPrevOnDpid(i, j) ==
  /\ i < j
  /\ trace[i].dpid = trace[j].dpid
  /\ \A m \in (i + 1)..(j - 1) : trace[m].dpid # trace[j].dpid

C18_PacketSendFollowsItsHandle ==
  \A j \in 1..Len(trace) :
    trace[j].type = "HbPacketSend" =>
      \E i \in 1..Len(trace) :
        /\ IsPrevOnDpid(i, j)
        /\ \/ Owns(trace[i], trace[j])
           \/ /\ trace[i].type \in SuccessorTypes
              /\ \E h \in 1..i : Owns(trace[h], trace[i]) /\ Owns(trace[h], trace[j])

(***************************************************************************)
(* Handles with their operations: flow table reads and the packet buffer,  *)
(* next to the sends of a handle.                                          *)
(***************************************************************************)
\* Hb events created in this specification
MaxOpsEid == 3

\* the switch whose handles are followed
OpsDpid == 1

\* tags handed out by the packet registry in this specification
MaxOpsTag == 4

\* a callback of the switch followed, within the bounds
OpsSimulator(e) ==
  /\ Simulator(e, MaxOpsEid)
  /\ pids'.counter <= MaxOpsTag

OpsPacketHandleBegin == \E p \in Packets : OpsSimulator(<<"TraceSwitchPacketHandleBegin", OpsDpid, p>>)
OpsPacketHandleEnd == OpsSimulator(<<"TraceSwitchPacketHandleEnd", OpsDpid>>)
OpsMessageHandleBegin == OpsSimulator(<<"TraceSwitchMessageHandleBegin", OpsDpid, "fm1">>)
OpsMessageHandleEnd == OpsSimulator(<<"TraceSwitchMessageHandleEnd", OpsDpid>>)
OpsPacketSend == \E p \in Packets : OpsSimulator(<<"TraceSwitchPacketSend", OpsDpid, p>>)
FlowTableRead == OpsSimulator(<<"TraceSwitchFlowTableRead", OpsDpid, "p1", "x">>)
BufferPut == \E p \in Packets : OpsSimulator(<<"TraceSwitchBufferPut", OpsDpid, p, "x">>)
BufferGet == \E p \in Packets : OpsSimulator(<<"TraceSwitchBufferGet", OpsDpid, p, "x">>)

NextOps ==
  \/ Open
  \/ OpsPacketHandleBegin
  \/ OpsPacketHandleEnd
  \/ OpsMessageHandleBegin
  \/ OpsMessageHandleEnd
  \/ OpsPacketSend
  \/ FlowTableRead
  \/ BufferPut
  \/ BufferGet

SpecOps == Init /\ [][NextOps]_vars

(***************************************************************************)
(* C20: every emitted HbPacketHandle whose operations contain k BufferPut  *)
(* operations has at least k entries in pid_out that those BufferPuts      *)
(* allocated; no emitted handle has a BufferPut among its operations       *)
(* without the pid_out appended for it.                                    *)
(***************************************************************************)
BufferPuts(h) ==
  Len(SelectSeq(h.operations, LAMBDA op : op.type = "TraceSwitchBufferPut"))

\* the positions of pid_out that no HbPacketSend of the handle accounts for
BufferTagPositions(h) ==
  {n \in 1..Len(h.pid_out) :
     \A e \in AllEvents : e.type = "HbPacketSend" => e.pid_in # h.pid_out[n]}

\* the tag was allocated for this entry: no other entry or event gives it out
FreshTag(h, n) ==
  /\ h.pid_out[n] # h.pid_in
  /\ \A m \in 1..Len(h.pid_out) : m # n => h.pid_out[m] # h.pid_out[n]
  /\ \A e \in AllEvents : e.eid # h.eid => h.pid_out[n] \notin Range(e.pid_out)

C20_BufferPutAllocatesPidOut ==
  \A i \in 1..Len(trace) :
    trace[i].type \in {"HbPacketHandle", "HbMessageHandle"} =>
      /\ Cardinality(BufferTagPositions(trace[i])) >= BufferPuts(trace[i])
      /\ \A n \in BufferTagPositions(trace[i]) : FreshTag(trace[i], n)

\* an emitted HbPacketHandle with a BufferPut and, after it, a send
C20_W_BufferPutAndSend ==
  \E i \in 1..Len(trace) :
    /\ trace[i].type = "HbPacketHandle"
    /\ BufferPuts(trace[i]) = 1
    /\ Len(trace[i].pid_out) = 2

(***************************************************************************)
(* End to end: one packet travels host - switch 1 - switch 2 - host; a     *)
(* switch reads its flow table and forwards the packet, or sends a         *)
(* PACKET_IN and buffers it; the controller answers a PACKET_IN with a     *)
(* FLOW_MOD to some switch and prints its two lines, which the reader      *)
(* hands to the Logger at any later time.  When all is quiet the trace is  *)
(* loaded into the graph and the Race Detector runs.                       *)
(***************************************************************************)
\* Hb events created in an end to end run
MaxNetEid == 10

\* the PACKET_IN a switch sends and the FLOW_MOD that answers it
PinMsg(dpid) == IF dpid = 1 THEN "pinP" ELSE "pinQ"
ReplyMsg(dpid) == IF dpid = 1 THEN "fm1" ELSE "fm2"

\* where a packet sent by a switch arrives
NextHop(dpid) == IF dpid = 1 THEN <<"link", 2>> ELSE <<"tohost", None>>

\* the threads of a run: the controller's output stream, the hosts and the
\* switches
Threads ==
  {<<"controller", None>>} \cup {<<"host", h>> : h \in Hids}
    \cup {<<"switch", d>> : d \in Dpids}

ThreadOf(e) ==
  IF e[1] \in {"TraceHostPacketHandleBegin", "TraceHostPacketHandleEnd", "TraceHostPacketSend"}
  THEN <<"host", e[2]>>
  ELSE <<"switch", e[2]>>

InitNetwork ==
  [pc |-> "idle",
   pkt |-> <<"host", None>>,          \* where the packet is
   sw |-> [d \in Dpids |-> "idle"],   \* how far the handle of each switch is
   pins |-> {},                       \* PACKET_INs the controller has not answered
   fms |-> {},                        \* FLOW_MODs on their way: <<dpid, msg>>
   lines |-> <<>>,                    \* lines printed and not yet read
   log |-> [t \in Threads |-> <<>>],  \* what each thread has done, in its order
   eager |-> [logger |-> Fields(open(Cur)), dead |-> FALSE]]
                                      \* a second Logger that is given the same
                                      \* callbacks in the same order, and each
                                      \* line as soon as it is printed

\* the reader thread's loop body on a Logger: match_line, and the thread ends
\* on an exception
EagerRead(r, line) ==
  IF r.dead THEN r
  ELSE LET s == _handle_line_match(r.logger, line)
       IN [logger |-> Fields(s), dead |-> s.exc]

\* a simulator callback of the network, and what it does to the network
NetDeliver(e, net) ==
  /\ sim.pc = "idle"
  /\ output # "None"
  /\ eid_counter + Creates(e) <= MaxNetEid
  /\ LET s == handle_no_exceptions(Cur, e) IN Step(s, "simulator")
  /\ sim' = [net EXCEPT !.log[ThreadOf(e)] = Append(@, e),
                        !.eager.logger = handle_no_exceptions(@, e)]
  /\ UNCHANGED <<reader, rd>>

NetHostSend ==
  /\ sim.pkt[1] = "host"
  /\ NetDeliver(<<"TraceHostPacketSend", 1, "p1">>, [sim EXCEPT !.pkt = <<"link", 1>>])

NetPacketHandleBegin ==
  \E d \in Dpids :
    /\ sim.pkt = <<"link", d>>
    /\ sim.sw[d] = "idle"
    /\ NetDeliver(<<"TraceSwitchPacketHandleBegin", d, "p1">>,
                  [sim EXCEPT !.pkt = <<"switch", d>>, !.sw[d] = "ph_begun"])

NetFlowTableRead ==
  \E d \in Dpids :
    /\ sim.sw[d] = "ph_begun"
    /\ NetDeliver(<<"TraceSwitchFlowTableRead", d, "p1", "x">>,
                  [sim EXCEPT !.sw[d] = "ph_read"])

\* no entry matched: the packet goes to the controller
NetPacketIn ==
  \E d \in Dpids :
    /\ sim.sw[d] = "ph_read"
    /\ NetDeliver(<<"TraceSwitchMessageSend", d, PinMsg(d)>>,
                  [sim EXCEPT !.sw[d] = "ph_sent_in", !.pins = @ \cup {d}])

NetBufferPut ==
  \E d \in Dpids :
    /\ sim.sw[d] = "ph_sent_in"
    /\ NetDeliver(<<"TraceSwitchBufferPut", d, "p1", "x">>,
                  [sim EXCEPT !.sw[d] = "ph_done", !.pkt = <<"buffer", d>>])

NetForward ==
  \E d \in Dpids :
    /\ sim.sw[d] \in {"ph_read", "ph_sent_in"}
    /\ NetDeliver(<<"TraceSwitchPacketSend", d, "p1">>,
                  [sim EXCEPT !.sw[d] = "ph_done", !.pkt = NextHop(d)])

NetPacketHandleEnd ==
  \E d \in Dpids :
    /\ sim.sw[d] = "ph_done"
    /\ NetDeliver(<<"TraceSwitchPacketHandleEnd", d>>, [sim EXCEPT !.sw[d] = "idle"])

\* the controller answers a PACKET_IN: it prints the MessageIn line, sends a
\* FLOW_MOD to a switch and prints the MessageOut line
NetControllerReply ==
  \E d \in sim.pins, t \in Dpids :
    LET in_line == <<"HappensBefore-MessageIn", ControllerSwid(d), base64_encode(PinMsg(d))>>
        out_line == <<"HappensBefore-MessageOut", ControllerSwid(d), base64_encode(PinMsg(d)),
                      ControllerSwid(t), base64_encode(ReplyMsg(d))>>
    IN /\ sim.pc = "idle"
       /\ sim' = [sim EXCEPT !.pins = @ \ {d},
                             !.fms = @ \cup {<<t, ReplyMsg(d)>>},
                             !.lines = @ \o <<in_line, out_line>>,
                             !.log[<<"controller", None>>] = @ \o <<in_line, out_line>>,
                             !.eager = EagerRead(EagerRead(@, in_line), out_line)]
       /\ UNCHANGED <<loggerVars, reader, mutators, rd>>

\* the reader thread hands the oldest printed line to the Logger
NetReadLine ==
  /\ sim.pc = "idle"
  /\ reader.pc = "idle"
  /\ sim.lines # <<>>
  /\ LET s == _handle_line_match(Cur, Head(sim.lines))
     IN /\ Step(Fields(s), "reader")
        /\ reader' = IF s.exc THEN [pc |-> "dead"] ELSE reader
  /\ sim' = [sim EXCEPT !.lines = Tail(@)]
  /\ UNCHANGED rd

NetMessageHandleBegin ==
  \E fm \in sim.fms :
    /\ sim.sw[fm[1]] = "idle"
    /\ NetDeliver(<<"TraceSwitchMessageHandleBegin", fm[1], fm[2]>>,
                  [sim EXCEPT !.fms = @ \ {fm}, !.sw[fm[1]] = "mh_begun"])

NetFlowTableWrite ==
  \E d \in Dpids :
    /\ sim.sw[d] = "mh_begun"
    /\ NetDeliver(<<"TraceSwitchFlowTableWrite", d, "p1", "x">>,
                  [sim EXCEPT !.sw[d] = "mh_written"])

\* the message releases the packet buffered at the switch
NetBufferGet ==
  \E d \in Dpids :
    /\ sim.sw[d] = "mh_written"
    /\ sim.pkt = <<"buffer", d>>
    /\ NetDeliver(<<"TraceSwitchBufferGet", d, "p1", "x">>,
                  [sim EXCEPT !.sw[d] = "mh_got", !.pkt = <<"switch", d>>])

NetPacketOut ==
  \E d \in Dpids :
    /\ sim.sw[d] = "mh_got"
    /\ NetDeliver(<<"TraceSwitchPacketSend", d, "p1">>,
                  [sim EXCEPT !.sw[d] = "mh_done", !.pkt = NextHop(d)])

NetMessageHandleEnd ==
  \E d \in Dpids :
    /\ sim.sw[d] \in {"mh_written", "mh_done"}
    /\ NetDeliver(<<"TraceSwitchMessageHandleEnd", d>>, [sim EXCEPT !.sw[d] = "idle"])

NetHostHandleBegin ==
  /\ sim.pkt[1] = "tohost"
  /\ NetDeliver(<<"TraceHostPacketHandleBegin", 1, "p1">>, [sim EXCEPT !.pkt = <<"athost", None>>])

NetHostHandleEnd ==
  /\ sim.pkt[1] = "athost"
  /\ NetDeliver(<<"TraceHostPacketHandleEnd", 1>>, [sim EXCEPT !.pkt = <<"done", None>>])

\* nothing is left to happen in the network
Quiescent ==
  /\ \A d \in Dpids : sim.sw[d] = "idle"
  /\ sim.pins = {}
  /\ sim.fms = {}
  /\ sim.lines = <<>> \/ reader.pc = "dead"
  /\ sim.pkt[1] \in {"done", "buffer"}

\* the graph loaded from a trace (hb_graph): the events keyed by eid, and an
\* hb edge from each event to every event whose in-tag is one of its out-tags
Predecessor(a, b) ==
  /\ a.eid # b.eid
  /\ \/ b.mid_in # None /\ b.mid_in \in Range(a.mid_out)
     \/ b.pid_in # None /\ b.pid_in \in Range(a.pid_out)

GraphOf(tr) ==
  LET n == IF tr = <<>> THEN 0
           ELSE CHOOSE m \in {tr[i].eid : i \in 1..Len(tr)} :
                  \A i \in 1..Len(tr) : tr[i].eid <= m
  IN [events |-> [eid \in 1..n |->
                    IF \E i \in 1..Len(tr) : tr[i].eid = eid
                    THEN tr[CHOOSE i \in 1..Len(tr) : tr[i].eid = eid]
                    ELSE HbEvent("None", eid, None, None, None, <<>>, None, <<>>, "", "")],
      g |-> {<<tr[i].eid, tr[j].eid, "hb">> : <<i, j>> \in
               {ij \in (1..Len(tr)) \X (1..Len(tr)) : Predecessor(tr[ij[1]], tr[ij[2]])}}]

NetDetect ==
  /\ sim.pc = "idle"
  /\ Quiescent
  /\ rd' = detect_races(RaceDetector(GraphOf(trace), rd.filter_rw), None)
  /\ sim' = [sim EXCEPT !.pc = "analysed"]
  /\ UNCHANGED <<loggerVars, reader, mutators>>

InitNet ==
  /\ InitLogger
  /\ reader = ThreadIdle
  /\ sim = InitNetwork
  /\ mutators = {}
  /\ rd \in {RaceDetector(EmptyGraph, f) : f \in BOOLEAN}

NextNet ==
  \/ Open
  \/ NetHostSend
  \/ NetPacketHandleBegin
  \/ NetFlowTableRead
  \/ NetPacketIn
  \/ NetBufferPut
  \/ NetForward
  \/ NetPacketHandleEnd
  \/ NetControllerReply
  \/ NetReadLine
  \/ NetMessageHandleBegin
  \/ NetFlowTableWrite
  \/ NetBufferGet
  \/ NetPacketOut
  \/ NetMessageHandleEnd
  \/ NetHostHandleBegin
  \/ NetHostHandleEnd
  \/ NetDetect

SpecNet == InitNet /\ [][NextNet]_vars

(***************************************************************************)
(* C19: for every edge that tag matching yields between two events of the  *)
(* trace (the in-tag of the successor is one of the out-tags of the        *)
(* predecessor), the kind of the predecessor is in                         *)
(* predecessor_types[kind of the successor]: no HbPacketHandle has an      *)
(* HbPacketHandle or HbMessageHandle predecessor, no HbHostHandle has an   *)
(* HbHostSend predecessor.                                                 *)
(***************************************************************************)
predecessor_types(type) ==
  CASE type = "HbAsyncFlowExpiry" -> {"HbMessageSend"}
    [] type = "HbPacketHandle" -> {"HbPacketSend", "HbHostSend"}
    [] type = "HbPacketSend" -> {"HbPacketHandle", "HbMessageHandle"}
    [] type = "HbMessageHandle" ->
         {"HbMessageHandle", "HbControllerSend", "HbPacketHandle", "HbMessageSend"}
    [] type = "HbMessageSend" -> {"HbAsyncFlowExpiry", "HbPacketHandle", "HbMessageHandle"}
    [] type = "HbHostHandle" -> {"HbPacketSend"}
    [] type = "HbHostSend" -> {"HbHostHandle"}
    [] type = "HbControllerHandle" -> {"HbMessageSend"}
    [] type = "HbControllerSend" -> {"HbControllerHandle"}

\* the kinds <<predecessor, successor>> of the edges between events of the trace
EdgeKinds ==
  {<<trace[ij[1]].type, trace[ij[2]].type>> : ij \in
     {ij \in (1..Len(trace)) \X (1..Len(trace)) : Predecessor(trace[ij[1]], trace[ij[2]])}}

HasOp(event, type) == \E n \in 1..Len(event.operations) : event.operations[n].type = type

\* switch 1 forwarded the packet and sent the PACKET_IN that the controller
\* answered with a FLOW_MOD to switch 2: the read of switch 2 and the write
\* of the FLOW_MOD both descend from the host's send, and neither from the
\* other
ConcurrentReadWrite(h, m) ==
  /\ h.type = "HbPacketHandle" /\ h.dpid = 2 /\ HasOp(h, "TraceSwitchFlowTableRead")
  /\ m.type = "HbMessageHandle" /\ m.dpid = 2 /\ HasOp(m, "TraceSwitchFlowTableWrite")
  /\ m.obj = ReplyMsg(1)

\* every line the controller printed has been handed to the Logger
LinesLogged ==
  /\ sim.lines = <<>>
  /\ sim.log[<<"controller", None>>] # <<>>

RacesBetween(a, b) ==
  {race \in Reported : {race.i_event, race.k_event} = {a, b}}

C15_ReadWriteWithCommonAncestorReported ==
  sim.pc = "analysed" /\ rd.filter_rw /\ LinesLogged =>
    \A h \in Eids(rd.graph), m \in Eids(rd.graph) :
      ConcurrentReadWrite(rd.graph.events[h], rd.graph.events[m])
        /\ ~is_ordered(rd, h, m) =>
        /\ Cardinality(RacesBetween(h, m)) = 1
        /\ \A p \in FilteredPairs(rd) : <<p[1][1], p[2][1]>> # <<h, m>>

(***************************************************************************)
(* C12: two runs that give the Logger the same simulator callbacks and the *)
(* same controller lines, each thread's in its own order, end with the     *)
(* same set of harmful races. The run of the model is compared with the    *)
(* run over the same callbacks in the same order in which every line is    *)
(* read as soon as the controller prints it; eids differ between the two   *)
(* runs, so a race is named by the kind, dpid and packet or message of its *)
(* two events and the positions of its operations.                         *)
(***************************************************************************)
EventKey(event) == <<event.type, event.dpid, event.obj>>

HarmfulRaces(r) ==
  {<<race.rtype, {<<EventKey(r.graph.events[race.i_event]), race.i_op>>,
                  <<EventKey(r.graph.events[race.k_event]), race.k_op>>}>> :
     race \in Range(r.races_harmful)}

\* the Race Detector run on the trace of the run that reads lines at once
EagerDetector ==
  detect_races(RaceDetector(GraphOf(sim.eager.logger.trace), rd.filter_rw), None)

\* both runs have handed every printed line to their Logger
SameLinesRead == sim.lines = <<>> /\ ~sim.eager.dead

C12_OrderIndependent ==
  sim.pc = "analysed" /\ SameLinesRead => HarmfulRaces(rd) = HarmfulRaces(EagerDetector)

(***************************************************************************)
(* C21: when an emitted HbMessageHandle took a packet out of the buffer    *)
(* (its last BufferGet) and the latest emitted HbPacketHandle of the same  *)
(* dpid that buffered that packet (BufferPut) precedes it, the pid_in of   *)
(* the HbMessageHandle is a pid_out that the BufferPut appended to the     *)
(* HbPacketHandle, whatever happened between the two operations.           *)
(***************************************************************************)
OpsOf(h, type) == SelectSeq(h.operations, LAMBDA op : op.type = type)

Buffers(h, packet) ==
  /\ h.type = "HbPacketHandle"
  /\ \E n \in 1..Len(h.operations) :
       h.operations[n].type = "TraceSwitchBufferPut" /\ h.operations[n].packet = packet

Retrieves(m, packet) ==
  /\ m.type = "HbMessageHandle"
  /\ OpsOf(m, "TraceSwitchBufferGet") # <<>>
  /\ LET gets == OpsOf(m, "TraceSwitchBufferGet") IN gets[Len(gets)].packet = packet

\* trace[i] buffered the packet that trace[j] retrieved, and no handle in
\* between buffered it again
PutThenGet(i, j, packet) ==
  /\ i < j
  /\ trace[i].dpid = trace[j].dpid
  /\ Buffers(trace[i], packet)
  /\ Retrieves(trace[j], packet)
  /\ \A k \in (i + 1)..(j - 1) : ~Buffers(trace[k], packet)

C21_BufferGetLinksToBufferPut ==
  \A i \in 1..Len(trace), j \in 1..Len(trace), packet \in Packets :
    PutThenGet(i, j, packet) =>
      trace[j].pid_in \in {trace[i].pid_out[n] : n \in BufferTagPositions(trace[i])}

(***************************************************************************)
(* C22: a MessageIn line, or a MessageOut line by its in-side, whose       *)
(* in-message has no recorded controller_msgin entry and no matching tuple *)
(* in the outbound queues the lookup searches, fails with an assertion and *)
(* leaves the Logger as it was: no swid bound, no entry recorded, nothing  *)
(* removed from a queue, no line buffered, no event written.               *)
(***************************************************************************)
\* the outbound queues find_controller_packet_in looks into for swid
SearchedDpids(swid) ==
  IF swid_to_dpid[swid] # None THEN {swid_to_dpid[swid]}
  ELSE {d \in Dpids : dpid_to_swid[d] = None}

UnknownInbound(swid, b64msg) ==
  /\ controller_msgin_to_mid_out[<<swid, b64msg>>] = None
  /\ \A d \in SearchedDpids(swid) : Matching(unmatched_HbMessageSend[d], b64msg) = <<>>

C22_UnknownInboundAssertsWithoutEffect ==
  \A line \in MsgInLines \cup MsgOutLines :
    UnknownInbound(line[2], line[3]) =>
      LET s == _handle_line_match(Cur, line)
      IN s.exc /\ Fields(s) = Cur

\* the reader thread has ended on such a line, which the controller printed
\* after the switch had sent the message
C22_W_ReaderEndedOnUnknownInbound ==
  /\ reader.pc = "dead"
  /\ trace # <<>>
  /\ \E line \in MsgInLines :
       UnknownInbound(line[2], line[3]) /\ LineWithinBounds(line)

(***************************************************************************)
(* C23: a simulator event that does not fit the handle in progress -- a    *)
(* handle End for a dpid or hid with no started handle, a BufferGet while  *)
(* the started handle is an HbPacketHandle, a BufferPut while it is an     *)
(* HbMessageHandle -- is dropped by handle_no_exceptions: the caller sees  *)
(* no exception and every field of the Logger is as before, so that the    *)
(* events after it are handled as if it had not come.                      *)
(***************************************************************************)
Inconsistent ==
  {<<end, d>> : end \in {"TraceSwitchPacketHandleEnd", "TraceSwitchMessageHandleEnd"},
                d \in {x \in Dpids : started_switch_event[x] = NoEvent}}
    \cup {<<"TraceHostPacketHandleEnd", h>> : h \in {x \in Hids : started_host_event[x] = NoEvent}}
    \cup {<<"TraceSwitchBufferGet", d, p, f>> :
            d \in {x \in Dpids : started_switch_event[x].type = "HbPacketHandle"},
            p \in Packets, f \in FlowMods}
    \cup {<<"TraceSwitchBufferPut", d, p, f>> :
            d \in {x \in Dpids : started_switch_event[x].type = "HbMessageHandle"},
            p \in Packets, f \in FlowMods}

C23_InconsistentEventDropped ==
  output # "None" =>
    \A e \in Inconsistent :
      LET s == handle_no_exceptions(Cur, e) IN ~s.exc /\ s = Cur

\* an HbPacketHandle in progress that has buffered its packet and queued a
\* send, with no handle on the other switch and none on the host
C23_W_HandleInProgress ==
  /\ output # "None"
  /\ started_switch_event[OpsDpid].type = "HbPacketHandle"
  /\ started_switch_event[OpsDpid].operations # <<>>
  /\ new_switch_events[OpsDpid] # <<>>
  /\ \E e \in Inconsistent : e[1] = "TraceSwitchBufferGet"
  /\ \E e \in Inconsistent : e[1] = "TraceHostPacketHandleEnd"

(***************************************************************************)
(* C24: a FlowTableRead, FlowTableWrite, FlowTableEntryExpiry, BufferPut   *)
(* or BufferGet event for a dpid with no started handle is skipped: it is  *)
(* attached to no event, nothing is written, no tag is allocated or        *)
(* changed, and every field of the Logger is as before.                    *)
(***************************************************************************)
OperationTypes ==
  {"TraceSwitchFlowTableRead", "TraceSwitchFlowTableWrite",
   "TraceSwitchFlowTableEntryExpiry", "TraceSwitchBufferPut", "TraceSwitchBufferGet"}

Unattached ==
  {<<type, d, p, f>> : type \in OperationTypes,
                       d \in {x \in Dpids : started_switch_event[x] = NoEvent},
                       p \in Packets, f \in FlowMods}

C24_OperationWithoutHandleSkipped ==
  output # "None" =>
    \A e \in Unattached : handle_no_exceptions(Cur, e) = Cur

\* between two handles of the switch: one has been written with its
\* operation, none is started, and the packet holds a tag
C24_W_BetweenHandles ==
  /\ output # "None"
  /\ started_switch_event[OpsDpid] = NoEvent
  /\ \E i \in 1..Len(trace) : trace[i].dpid = OpsDpid /\ trace[i].operations # <<>>
  /\ \E e \in Unattached : e[2] = OpsDpid /\ pids.tag[e[3]] # None

(***************************************************************************)
(* C25: once a swid is bound to a dpid, a lookup for that swid -- for the  *)
(* in-message of a line in the outbound queues, for the out-message in the *)
(* queues of started message handles -- takes a tuple only from the queue  *)
(* of the bound dpid, leaves the queues of every other dpid as they are,   *)
(* and changes no binding.                                                 *)
(***************************************************************************)
\* the lookup result s1 for a swid bound to dpid: bindings kept, the other
\* queues untouched, and a tuple taken from the queue of dpid alone
UsesBinding(s1, dpid, b64msg, queue_before, queue_after, recorded) ==
  /\ s1.swid_to_dpid = swid_to_dpid
  /\ s1.dpid_to_swid = dpid_to_swid
  /\ \A d \in Dpids \ {dpid} : queue_after[d] = queue_before[d]
  /\ ~s1.exc /\ s1.ret # None /\ ~recorded =>
       /\ <<s1.ret, b64msg>> \in Range(queue_before[dpid])
       /\ queue_after[dpid] = RemoveFirst(queue_before[dpid], <<s1.ret, b64msg>>)
  /\ s1.exc \/ s1.ret = None \/ recorded => queue_after[dpid] = queue_before[dpid]

C25_BoundSwidSearchesItsDpidOnly ==
  \A swid \in {w \in Swids : swid_to_dpid[w] # None} :
    /\ \A b \in OutBytes :
         LET s1 == find_controller_packet_in(Cur, swid, b)
         IN UsesBinding(s1, swid_to_dpid[swid], b, unmatched_HbMessageSend,
                        s1.unmatched_HbMessageSend,
                        controller_msgin_to_mid_out[<<swid, b>>] # None)
    /\ \A b \in InBytes :
         LET s1 == find_controller_packet_out(Cur, swid, b)
         IN UsesBinding(s1, swid_to_dpid[swid], b, unmatched_HbMessageHandle,
                        s1.unmatched_HbMessageHandle, FALSE)

\* a swid is bound, and a message it is asked about is queued only under a
\* dpid that has no swid yet: a scan would find it there
C25_W_TupleUnderUnboundDpid ==
  \E swid \in Swids, b \in OutBytes, d \in Dpids :
    /\ swid_to_dpid[swid] \notin {None, d}
    /\ dpid_to_swid[d] = None
    /\ controller_msgin_to_mid_out[<<swid, b>>] = None
    /\ Matching(unmatched_HbMessageSend[d], b) # <<>>
    /\ Matching(unmatched_HbMessageSend[swid_to_dpid[swid]], b) = <<>>

(***************************************************************************)
(* Shutdown: close() ends the trace at any moment of a run of handles and  *)
(* successors, also while a handle is in progress.                         *)
(***************************************************************************)
Close ==
  /\ output # "None"
  /\ sim.pc = "idle"
  /\ Commit(close(Cur))
  /\ UNCHANGED <<reader, sim, mutators, rd>>

NextClose ==
  \/ Next
  \/ Close

SpecClose == Init /\ [][NextClose]_vars

(***************************************************************************)
(* C26: when the trace has been closed, every successor that was queued    *)
(* under a handle that had begun and not ended is in the trace: close()    *)
(* writes the queued successors before it closes the file.                 *)
(***************************************************************************)
QueuedSuccessors ==
  Range(Flatten(new_switch_events)) \cup Range(Flatten(new_host_events))

C26_CloseFlushesQueuedSuccessors ==
  output = "None" => \A e \in QueuedSuccessors : e \in Range(trace)

(***************************************************************************)
(* C27: after detect_races on a graph without events the counts of         *)
(* operations and of harmful, commuting and filtered races and their total *)
(* are all 0; on a graph whose only flow table operation is one write, no  *)
(* race is listed and every race count is 0.                               *)
(***************************************************************************)
NoRaces(r) ==
  /\ r.races_harmful = <<>> /\ r.races_commute = <<>>
  /\ r.total_harmful = 0 /\ r.total_commute = 0
  /\ r.total_filtered = 0 /\ r.total_races = 0

SingleWriteOnly(graph) ==
  Cardinality(WriteRefs(graph)) = 1 /\ ReadRefs(graph) = {}

C27_NothingToRace ==
  rd.detected =>
    /\ rd.graph.events = <<>> => rd.total_operations = 0 /\ NoRaces(rd)
    /\ SingleWriteOnly(rd.graph) => NoRaces(rd)

\* detection has run on a graph with one write, beside another event of the
\* same dpid that nothing orders with the writer
C27_W_SingleWriteDetected ==
  /\ rd.detected
  /\ SingleWriteOnly(rd.graph)
  /\ \E i \in Eids(rd.graph), k \in Eids(rd.graph) :
       /\ i # k
       /\ rd.graph.events[i].dpid = rd.graph.events[k].dpid
       /\ ~is_ordered(rd, i, k)

(***************************************************************************)
(* Subgraphs of the harmful races (reduce/subgraph.py).  The graph has a   *)
(* HostSend, two events in between, and a reading HbPacketHandle and a     *)
(* writing HbMessageHandle of one switch; its edges are added in any way   *)
(* that goes forward in eid.  The Race Detector runs, and get_subgraphs    *)
(* collects for each harmful race the nodes on the paths from the HostSend *)
(* to the two racing events.                                               *)
(***************************************************************************)
\* edges of the graph that is reduced
MaxSubEdges == 4

SubEvents ==
  <<HbHostSend(1, None, None, 1, "p1"),
    HbPacketSend(2, None, None, 2, "p1"),
    HbPacketSend(3, None, None, 2, "p1"),
    [HbPacketHandle(4, None, 1, "p1") EXCEPT
       !.operations = <<TraceOp("TraceSwitchFlowTableRead", 1, "p1", "x")>>],
    [HbMessageHandle(5, None, 1, "fm1") EXCEPT
       !.operations = <<TraceOp("TraceSwitchFlowTableWrite", 1, "p1", "x")>>]>>

\* hb_graph.host_sends: the eids of the HbHostSend events
host_sends(graph) ==
  SortedSeq({i \in Eids(graph) : graph.events[i].type = "HbHostSend"})

\* cg: the copy of the graph with its time and dep_raw edges removed
WithoutTimeEdges(graph) ==
  [graph EXCEPT !.g = {e \in @ : e[3] \notin {"time", "dep_raw"}}]

\* graph.neighbors(node), in the order of the adjacency dict
neighbors(graph, node) == SortedSeq({e[2] : e \in {x \in graph.g : x[1] = node}})

\* the three lists the traversal fills
EmptySearch == [paths_to_race |-> <<>>, visited |-> <<>>, alt_paths |-> <<>>]

RECURSIVE _get_path_to_race(_, _, _, _, _)
RECURSIVE VisitChildren(_, _, _, _, _)
\* for child in graph.neighbors(node): each call gets its own copy of path
VisitChildren(graph, children, race_ids, path, st) ==
  IF children = <<>> THEN st
  ELSE VisitChildren(graph, Tail(children), race_ids, path,
                     _get_path_to_race(graph, Head(children), race_ids, path, st))

\* a node is passed over only when it is on the current path already
_get_path_to_race_checks_path(graph, node, race_ids, path, st) ==
  LET path1 == Append(path, node)
  IN IF node \in Range(path)
     THEN [st EXCEPT !.alt_paths = Append(@, path1)]
     ELSE LET st1 == [st EXCEPT !.visited = Append(@, node)]
              st2 == VisitChildren(graph, neighbors(graph, node), race_ids, path1, st1)
          IN IF node \in race_ids
             THEN [st2 EXCEPT !.paths_to_race = Append(@, path1)]
             ELSE st2

_get_path_to_race(graph, node, race_ids, path, st) ==
  LET path1 == Append(path, node)
  IN IF node \in Range(st.visited)
     THEN [st EXCEPT !.alt_paths = Append(@, path1)]
     ELSE LET st1 == [st EXCEPT !.visited = Append(@, node)]
              st2 == VisitChildren(graph, neighbors(graph, node), race_ids, path1, st1)
          IN IF node \in race_ids
             THEN [st2 EXCEPT !.paths_to_race = Append(@, path1)]
             ELSE st2

\* path.index(x), counted from 1
IndexOf(path, x) ==
  CHOOSE n \in 1..Len(path) : path[n] = x /\ \A m \in 1..(n - 1) : path[m] # x

RECURSIVE ExtendWithAlts(_, _, _)
\* for alt in alt_paths[:]
ExtendWithAlts(st, path, alts) ==
  IF alts = <<>> THEN st
  ELSE LET alt == Head(alts)
           last == alt[Len(alt)]
           st1 == IF last \in Range(path) /\ Len(path) > IndexOf(path, last)
                  THEN [st EXCEPT
                          !.paths_to_race =
                             Append(@, alt \o SubSeq(path, IndexOf(path, last) + 1, Len(path))),
                          !.alt_paths = RemoveFirst(@, alt)]
                  ELSE st
       IN ExtendWithAlts(st1, path, Tail(alts))

RECURSIVE ForEachPath(_, _)
\* for path in paths_to_race[:]
ForEachPath(st, paths) ==
  IF paths = <<>> THEN st
  ELSE ForEachPath(ExtendWithAlts(st, Head(paths), st.alt_paths), Tail(paths))

RECURSIVE ExtendUntilNoNewPath(_, _)
\* while len(paths_to_race) > old_len
ExtendUntilNoNewPath(st, old_len) ==
  IF Len(st.paths_to_race) > old_len
  THEN ExtendUntilNoNewPath(ForEachPath(st, st.paths_to_race), Len(st.paths_to_race))
  ELSE st

\* the alternative paths left over returned with the paths to the races
get_path_to_race_with_alt_paths(graph, host_send, race_ids) ==
  LET st == ExtendUntilNoNewPath(
              _get_path_to_race(graph, host_send, race_ids, <<>>, EmptySearch), 0)
  IN st.paths_to_race \o st.alt_paths

get_path_to_race(graph, host_send, race_ids) ==
  ExtendUntilNoNewPath(_get_path_to_race(graph, host_send, race_ids, <<>>, EmptySearch),
                       0).paths_to_race

\* the node sets of the subgraphs, one for each harmful race in list order
get_subgraphs(r) ==
  LET cg == WithoutTimeEdges(r.graph)
      harmful == r.races_harmful
      race_ids == {harmful[n].i_event : n \in 1..Len(harmful)}
                    \cup {harmful[n].k_event : n \in 1..Len(harmful)}
      sends == host_sends(r.graph)
      found == Flatten([n \in 1..Len(sends) |-> get_path_to_race(cg, sends[n], race_ids)])
      all_paths == [id \in race_ids |-> SelectSeq(found, LAMBDA p : p[Len(p)] = id)]
  IN [n \in 1..Len(harmful) |->
        {harmful[n].i_event, harmful[n].k_event}
          \cup UNION {Range(p) : p \in Range(all_paths[harmful[n].i_event])}
          \cup UNION {Range(p) : p \in Range(all_paths[harmful[n].k_event])}]

SubAddEdge ==
  \E src \in 1..Len(SubEvents), dst \in 1..Len(SubEvents), rel \in Rels :
    /\ ~rd.detected
    /\ src < dst
    /\ Cardinality(rd.graph.g) < MaxSubEdges
    /\ \A e \in rd.graph.g : <<e[1], e[2]>> # <<src, dst>>
    /\ rd' = [rd EXCEPT !.graph.g = @ \cup {<<src, dst, rel>>}]
    /\ UNCHANGED <<loggerVars, reader, sim, mutators>>

SubDetect ==
  /\ ~rd.detected
  /\ DetectRaces(None)

GetSubgraphs ==
  /\ rd.detected
  /\ sim.pc = "idle"
  /\ sim' = [pc |-> "reduced", subgraphs |-> get_subgraphs(rd)]
  /\ UNCHANGED <<loggerVars, reader, mutators, rd>>

InitSub ==
  /\ InitLogger
  /\ reader = ThreadIdle
  /\ sim = [pc |-> "idle", subgraphs |-> <<>>]
  /\ mutators = {}
  /\ rd = RaceDetector([events |-> SubEvents, g |-> {}], FALSE)

NextSub ==
  \/ SubAddEdge
  \/ SubDetect
  \/ GetSubgraphs

SpecSub == InitSub /\ [][NextSub]_vars

(***************************************************************************)
(* C28: for each harmful race, the subgraph built by get_subgraphs holds   *)
(* every node that lies on a directed path, along edges other than time    *)
(* and dep_raw edges, from a HostSend to one of the two racing events.     *)
(***************************************************************************)
\* node is on a path of graph from u to v
OnPath(graph, u, node, v) ==
  node \in Closure(graph, {u}) /\ v \in Closure(graph, {node})

C28_SubgraphHoldsEveryPathNode ==
  sim.pc = "reduced" =>
    \A n \in 1..Len(rd.races_harmful) :
      \A node \in Eids(rd.graph), h \in Range(host_sends(rd.graph)),
         t \in {rd.races_harmful[n].i_event, rd.races_harmful[n].k_event} :
        OnPath(WithoutTimeEdges(rd.graph), h, node, t) => node \in sim.subgraphs[n]


(***************************************************************************)
(* C29: when a successor that was queued under a started handle is written *)
(* to the trace, its in-tag is in the out list of that handle (pid_out for *)
(* HbPacketSend and HbHostSend, mid_out for HbMessageSend), its in-tag and *)
(* its out-tag differ, and no earlier event carries either of them as a    *)
(* tag (the handle's out list, which holds the in-tag, aside).             *)
(***************************************************************************)
InTag(e) == IF e.type = "HbMessageSend" THEN e.mid_in ELSE e.pid_in

OutTag(e) == IF e.type = "HbMessageSend" THEN e.mid_out[1] ELSE e.pid_out[1]

\* the out list of handle h that a successor of the type of e is linked into
OutList(h, e) == IF e.type = "HbMessageSend" THEN Range(h.mid_out) ELSE Range(h.pid_out)

\* the tags of event x that are of the kind of the tags of successor e
TagsOf(x, e) ==
  IF e.type = "HbMessageSend"
  THEN ({x.mid_in} \cup Range(x.mid_out)) \ {None}
  ELSE ({x.pid_in} \cup Range(x.pid_out)) \ {None}

\* the successors of queue q that this step writes are linked to handle h
EmittedLinkedAndFresh(h, q) ==
  \A e \in Range(q) :
    e \in Range(trace') /\ e \notin Range(trace) =>
      /\ h.type \in HandleTypes
      /\ InTag(e) \in OutList(h, e)
      /\ InTag(e) # OutTag(e)
      /\ \A x \in Range(trace') \cup {h} :
           x.eid < e.eid =>
             /\ OutTag(e) \notin TagsOf(x, e)
             /\ x.eid # h.eid => InTag(e) \notin TagsOf(x, e)
             /\ x.eid = h.eid => InTag(e) # (IF e.type = "HbMessageSend" THEN x.mid_in ELSE x.pid_in)

C29_QueuedSuccessorLinkedWithFreshTags ==
  [][/\ \A d \in Dpids :
          EmittedLinkedAndFresh(started_switch_event[d], new_switch_events[d])
     /\ \A h \in Hids :
          EmittedLinkedAndFresh(started_host_event[h], new_host_events[h])]_vars

C29_W_QueuedSuccessorsEmitted ==
  \E i \in 1..Len(trace), j \in 1..Len(trace), k \in 1..Len(trace) :
    /\ i < j /\ i < k
    /\ trace[i].type = "HbPacketHandle"
    /\ trace[j].type = "HbPacketSend" /\ trace[j].pid_in \in Range(trace[i].pid_out)
    /\ trace[k].type = "HbMessageSend" /\ trace[k].mid_in \in Range(trace[i].mid_out)


(***************************************************************************)
(* Packet updates: a switch replaces a packet object in place between      *)
(* PacketUpdateBegin and PacketUpdateEnd; one switch handles and sends     *)
(* packets meanwhile.                                                      *)
(***************************************************************************)
\* eids and tags in use beyond which no further event is delivered
MaxPuEid == 3
MaxPuTag == 3

PuSimulator(e) ==
  /\ Simulator(e, MaxPuEid)
  /\ pids'.counter <= MaxPuTag

PuPacketHandleBegin ==
  \E p \in Packets : PuSimulator(<<"TraceSwitchPacketHandleBegin", OpsDpid, p>>)
PuPacketHandleEnd == PuSimulator(<<"TraceSwitchPacketHandleEnd", OpsDpid>>)
PuPacketSend == \E p \in Packets : PuSimulator(<<"TraceSwitchPacketSend", OpsDpid, p>>)
PacketUpdateBegin ==
  \E d \in Dpids, p \in Packets : PuSimulator(<<"TraceSwitchPacketUpdateBegin", d, p>>)
PacketUpdateEnd ==
  \E d \in Dpids, p \in Packets : PuSimulator(<<"TraceSwitchPacketUpdateEnd", d, p>>)

NextPU ==
  \/ Open
  \/ PuPacketHandleBegin
  \/ PuPacketHandleEnd
  \/ PuPacketSend
  \/ PacketUpdateBegin
  \/ PacketUpdateEnd

SpecPU == Init /\ [][NextPU]_vars

(***************************************************************************)
(* C30: PacketUpdateBegin(dpid, p) followed by PacketUpdateEnd(dpid, p2)   *)
(* rebinds to p2 the tag p held at the Begin, and a PacketHandleBegin for  *)
(* p2 after it gets that tag as pid_in; a PacketUpdateEnd on a dpid that   *)
(* has seen no PacketUpdateBegin fails its assertion and changes no tag.   *)
(***************************************************************************)
\* the Logger after Begin(dpid, p) and End(dpid, p2), from state s
AfterUpdate(s, dpid, p, p2) ==
  handle_no_exceptions(
    handle_no_exceptions(s, <<"TraceSwitchPacketUpdateBegin", dpid, p>>),
    <<"TraceSwitchPacketUpdateEnd", dpid, p2>>)

\* the tag p holds once a PacketUpdateBegin for it has run in state s
TagAtBegin(s, p) == get_tag(s.pids, p).ret

C30_UpdateKeepsTheTag ==
  output # "None" =>
    /\ \A dpid \in Dpids, p \in Packets, p2 \in Packets :
         LET s == AfterUpdate(Cur, dpid, p, p2)
         IN /\ s.pids.tag[p2] = TagAtBegin(Cur, p)
            /\ \A d \in Dpids :
                 ~is_switch_event_started(s, d) =>
                   handle_no_exceptions(s, <<"TraceSwitchPacketHandleBegin", d, p2>>)
                     .started_switch_event[d].pid_in = TagAtBegin(Cur, p)
    /\ \A dpid \in Dpids, p2 \in Packets :
         pending_packet_update[dpid] = None =>
           /\ handle_switch_pu_end(Cur, dpid, p2).exc
           /\ handle_no_exceptions(Cur, <<"TraceSwitchPacketUpdateEnd", dpid, p2>>) = Cur

C30_W_HandledUnderTheOldTag ==
  \E i \in 1..Len(trace), j \in 1..Len(trace), dpid \in Dpids :
    /\ i < j
    /\ trace[i].type = "HbPacketHandle" /\ trace[i].obj = "p1"
    /\ trace[j].type = "HbPacketHandle" /\ trace[j].obj = "p2"
    /\ trace[j].pid_in = trace[i].pid_in
    /\ pending_packet_update[dpid] = trace[i].pid_in
    /\ pids.tag["p2"] = trace[i].pid_in
    /\ pids.tag["p1"] = None


(***************************************************************************)
(* C31: when a switch has sent two messages with identical bytes and the   *)
(* controller acknowledges each with a MessageIn line, after the second    *)
(* MessageIn the entry controller_msgin_to_mid_out[(swid, b64msg)] is the  *)
(* mid_out of the second (newest) send, and the second send's outbound     *)
(* tuple is no longer in the unmatched queue.                              *)
(***************************************************************************)
\* the Logger after the line MessageIn(swid, b64msg) has been read in state s
AfterMessageIn(s, swid, b64msg) ==
  Fields(_handle_line_match(s, <<"HappensBefore-MessageIn", swid, b64msg>>))

\* dpid holds exactly two unacknowledged sends of b64msg, and nothing about
\* (swid, b64msg) has been acknowledged yet; the first MessageIn takes dpid
TwoSendsUnacknowledged(dpid, swid, b64msg) ==
  /\ Len(SelectSeq(unmatched_HbMessageSend[dpid], LAMBDA t : t[2] = b64msg)) = 2
  /\ controller_msgin_to_mid_out[<<swid, b64msg>>] = None
  /\ AfterMessageIn(Cur, swid, b64msg).swid_to_dpid[swid] = dpid

C31_NewestSendAcknowledged ==
  \A dpid \in Dpids, swid \in Swids, b64msg \in OutBytes :
    TwoSendsUnacknowledged(dpid, swid, b64msg) =>
      LET sends == SelectSeq(unmatched_HbMessageSend[dpid], LAMBDA t : t[2] = b64msg)
          s2 == AfterMessageIn(AfterMessageIn(Cur, swid, b64msg), swid, b64msg)
      IN /\ s2.controller_msgin_to_mid_out[<<swid, b64msg>>] = sends[2][1]
         /\ sends[2] \notin Range(s2.unmatched_HbMessageSend[dpid])


(***************************************************************************)
(* The operations the detector extracts (RaceDetector.read_ops): a graph   *)
(* whose handle events carry operations of every type the Logger attaches. *)
(***************************************************************************)
\* operations in the graph read_ops runs on
MaxRoOps == 3

OperationTypesLogged ==
  {"TraceSwitchFlowTableRead", "TraceSwitchFlowTableWrite",
   "TraceSwitchFlowTableEntryExpiry", "TraceSwitchBufferPut", "TraceSwitchBufferGet"}

\* an operation of any type under the event read last
RoAddOperation ==
  \E type \in OperationTypesLogged :
    /\ sim.pc = "idle"
    /\ rd.graph.events # <<>>
    /\ Len(AllOps(rd.graph)) < MaxRoOps
    /\ LET eid == Len(rd.graph.events)
           event == rd.graph.events[eid]
       IN /\ Len(event.operations) < MaxOps
          /\ rd' = [rd EXCEPT !.graph.events[eid].operations =
                                Append(@, TraceOp(type, event.dpid, "p1", "x"))]
    /\ UNCHANGED <<loggerVars, reader, sim, mutators>>

RoAddEvent ==
  /\ sim.pc = "idle"
  /\ AddEvent

ReadOps ==
  /\ sim.pc = "idle"
  /\ rd' = read_ops(rd)
  /\ sim' = [pc |-> "read"]
  /\ UNCHANGED <<loggerVars, reader, mutators>>

NextRO ==
  \/ RoAddEvent
  \/ RoAddOperation
  \/ ReadOps

SpecRO == InitRD /\ [][NextRO]_vars

(***************************************************************************)
(* C32: after read_ops, write_operations holds exactly the (event, op)     *)
(* pairs of the graph whose op is a FlowTableWrite and read_operations     *)
(* exactly those whose op is a FlowTableRead, each once and in graph event *)
(* order, whichever kind of handle carries the operation; the other        *)
(* operation types are in neither list.                                    *)
(***************************************************************************)
C32_ReadOpsPartitionsTableOperations ==
  sim.pc = "read" =>
    /\ rd.write_operations = OpsOfType(rd.graph, "TraceSwitchFlowTableWrite")
    /\ rd.read_operations = OpsOfType(rd.graph, "TraceSwitchFlowTableRead")


(***************************************************************************)
(* C33: after detect_races, racing_events is exactly the set of events     *)
(* that appear in a race of races_harmful or races_commute, and            *)
(* racing_events_harmful exactly the set of events that appear in a race   *)
(* of races_harmful, so racing_events_harmful is a subset of               *)
(* racing_events; an event that appears in filtered pairs only is in       *)
(* neither set.                                                            *)
(***************************************************************************)
\* the events that appear in a race of the list
EventsIn(races) == UNION {{races[n].i_event, races[n].k_event} : n \in 1..Len(races)}

\* the events of the pairs the r/w filter dropped
FilteredEvents(r) == UNION {{p[1][1], p[2][1]} : p \in FilteredPairs(r)}

C33_RacingEventsAreTheEventsOfTheRaces ==
  rd.detected =>
    /\ rd.racing_events = EventsIn(rd.races_harmful) \cup EventsIn(rd.races_commute)
    /\ rd.racing_events_harmful = EventsIn(rd.races_harmful)
    /\ rd.racing_events_harmful \subseteq rd.racing_events
    /\ \A e \in FilteredEvents(rd) :
         e \notin EventsIn(rd.races_harmful) \cup EventsIn(rd.races_commute) =>
           e \notin rd.racing_events /\ e \notin rd.racing_events_harmful

C33_W_HarmfulAndFilteredOnly ==
  /\ rd.detected
  /\ rd.races_harmful # <<>>
  /\ FilteredEvents(rd) \ rd.racing_events # {}


(***************************************************************************)
(* C34: get_path_to_race(graph, host_send, race_ids) returns only directed *)
(* paths of the graph (node after node along an edge, no node twice) that  *)
(* start at host_send and end at a member of race_ids, and for every race  *)
(* event reachable from host_send at least one returned path ends at it.   *)
(***************************************************************************)
\* p is a directed path of graph: consecutive nodes are joined by an edge
IsDirectedPath(graph, p) ==
  /\ p # <<>>
  /\ \A n \in 1..(Len(p) - 1) : \E e \in graph.g : e[1] = p[n] /\ e[2] = p[n + 1]
  /\ \A n \in 1..Len(p), m \in 1..Len(p) : p[n] = p[m] => n = m

\* the sets of race events the search may be asked for
RaceIdSets == SUBSET (Eids(rd.graph) \ Range(host_sends(rd.graph)))

C34_PathsLeadFromHostSendToRaces ==
  \A race_ids \in RaceIdSets, host_send \in Range(host_sends(rd.graph)) :
    LET cg == WithoutTimeEdges(rd.graph)
        paths == get_path_to_race(cg, host_send, race_ids)
    IN /\ \A n \in 1..Len(paths) :
            /\ IsDirectedPath(cg, paths[n])
            /\ paths[n][1] = host_send
            /\ paths[n][Len(paths[n])] \in race_ids
       /\ \A id \in race_ids :
            id \in Closure(cg, {host_send}) =>
              \E n \in 1..Len(paths) : paths[n][Len(paths[n])] = id

\* a race event reached along two paths, the second found by extension
C34_W_PathFoundByExtension ==
  /\ sim.pc = "reduced"
  /\ rd.races_harmful # <<>>
  /\ LET cg == WithoutTimeEdges(rd.graph)
         race_ids == {rd.races_harmful[1].i_event, rd.races_harmful[1].k_event}
     IN Len(get_path_to_race(cg, 1, race_ids))
          > Len(_get_path_to_race(cg, 1, race_ids, <<>>, EmptySearch).paths_to_race)


(***************************************************************************)
(* C35: in every reachable Logger state swid_to_dpid and dpid_to_swid are  *)
(* mutually inverse partial maps (swid_to_dpid[s] = d iff                  *)
(* dpid_to_swid[d] = s), and a binding once made is never changed, after   *)
(* any sequence of MessageSend, MessageHandleBegin, MessageIn and          *)
(* MessageOut.                                                             *)
(***************************************************************************)
MutuallyInverse ==
  \A w \in Swids, d \in Dpids : swid_to_dpid[w] = d <=> dpid_to_swid[d] = w

BindingsKept ==
  /\ \A w \in Swids : swid_to_dpid[w] # None => swid_to_dpid'[w] = swid_to_dpid[w]
  /\ \A d \in Dpids : dpid_to_swid[d] # None => dpid_to_swid'[d] = dpid_to_swid[d]

C35_SwidAndDpidMapsInverseAndStable ==
  [](MutuallyInverse) /\ [][BindingsKept]_vars


(***************************************************************************)
(* handle_switch_mh_begin in the simulator thread and controller_ack_out   *)
(* in the reader thread, with no lock between them: each looks the other   *)
(* side up first and records its own side afterwards, and the other        *)
(* thread may run in between.                                              *)
(***************************************************************************)
\* handle_switch_mh_begin up to the result of match_unmatched_controller_msgout
MhBeginMatch ==
  \E d \in Dpids, m \in InMsgs :
    /\ sim.pc = "idle"
    /\ output # "None"
    /\ WithinBounds(<<"TraceSwitchMessageHandleBegin", d, m>>, MaxCtlEid)
    /\ LET r == get_tag(mids, m)
           s1 == [Cur EXCEPT !.mids = r.reg]
           begin_event == HbMessageHandle(NextEid(s1), r.ret, d, m)
           s2 == start_switch_event(TakeEid(s1), d, begin_event)
           s3 == match_unmatched_controller_msgout(s2, r.ret, d, base64_encode(m))
       IN IF s2.exc THEN Step(Fields(s2), "simulator") /\ sim' = sim
          ELSE IF s3.exc \/ s3.ret # None THEN Step(Fields(s3), "simulator") /\ sim' = sim
          ELSE /\ Step(Fields(s3), "simulator")
               /\ sim' = [pc |-> "unmatched", dpid |-> d, mid_in |-> r.ret,
                          b64msg |-> base64_encode(m)]
    /\ UNCHANGED <<reader, rd>>

\* if not is_matched: self.unmatched_HbMessageHandle[event.dpid].append(...)
MhBeginAppend ==
  /\ sim.pc = "unmatched"
  /\ Step([Cur EXCEPT !.unmatched_HbMessageHandle[sim.dpid] =
                        Append(@, <<sim.mid_in, sim.b64msg>>)], "simulator")
  /\ sim' = ThreadIdle
  /\ UNCHANGED <<reader, rd>>

\* controller_ack_out up to the result of find_controller_packet_out
AckOutFind ==
  \E line \in MsgOutLines :
    /\ reader.pc = "idle"
    /\ LineWithinBounds(line)
    /\ LET s1 == find_controller_packet_in(Cur, line[2], line[3])
           s2 == find_controller_packet_out(s1, line[4], line[5])
       IN IF s1.exc \/ s1.ret = None
          THEN Step(Fields(s1), "reader") /\ reader' = ThreadDead
          ELSE IF s2.exc THEN Step(Fields(s2), "reader") /\ reader' = ThreadDead
          ELSE IF s2.ret = None
          THEN /\ Step(Fields(s2), "reader")
               /\ reader' = [pc |-> "unmatched", line |-> Tail(line)]
          ELSE LET s3 == add_controller_hb_edge(s2, s1.ret, s2.ret)
               IN /\ Step(Fields(s3), "reader")
                  /\ reader' = IF s3.exc THEN ThreadDead ELSE reader
    /\ UNCHANGED <<sim, rd>>

\* self.unmatched_lines_controller_msgout.append(...)
AckOutAppend ==
  /\ reader.pc = "unmatched"
  /\ Step([Cur EXCEPT !.unmatched_lines_controller_msgout = Append(@, reader.line)],
          "reader")
  /\ reader' = ThreadIdle
  /\ UNCHANGED <<sim, rd>>

NextMh ==
  \/ Open
  \/ CtlMessageSend
  \/ CtlMessageHandleEnd
  \/ MhBeginMatch
  \/ MhBeginAppend
  \/ AckOutFind
  \/ AckOutAppend

SpecMh == Init /\ [][NextMh]_vars

(***************************************************************************)
(* C36: for every interleaving of controller_ack_out for a MessageOut line *)
(* with handle_switch_mh_begin for the line's out-message, the two are     *)
(* linked: it never happens that the line is left in the buffered-lines    *)
(* list and the handle in the unmatched inbound queue of the switch the    *)
(* line is addressed to, neither having matched the other.                 *)
(***************************************************************************)
\* the buffered line's out-message is for the switch dpid
AddressedTo(line, dpid) ==
  \/ swid_to_dpid[line[3]] = dpid
  \/ swid_to_dpid[line[3]] = None /\ dpid_to_swid[dpid] = None

BothLeftUnmatched ==
  \E n \in 1..Len(unmatched_lines_controller_msgout), d \in Dpids :
    \E k \in 1..Len(unmatched_HbMessageHandle[d]) :
      /\ unmatched_lines_controller_msgout[n][4] = unmatched_HbMessageHandle[d][k][2]
      /\ AddressedTo(unmatched_lines_controller_msgout[n], d)

C36_LineAndHandleNeverBothUnmatched ==
  reader.pc # "unmatched" /\ sim.pc = "idle" => ~BothLeftUnmatched


(***************************************************************************)
(* C37: in a run over all events every candidate pair on distinct,         *)
(* same-dpid, unordered events is accounted for exactly once: each         *)
(* unordered pair of writes is one race of races_harmful or races_commute  *)
(* (never both as (a,b) and (b,a)), each (read, write) pair is one race or *)
(* one unit of the filtered count, and                                      *)
(* |races_harmful| + |races_commute| + total_filtered is the number of     *)
(* candidate pairs.                                                        *)
(***************************************************************************)
PassesPairFilters(r, a, b) ==
  /\ a[1] # b[1]
  /\ r.graph.events[a[1]].dpid = r.graph.events[b[1]].dpid
  /\ ~is_ordered(r, a[1], b[1])

\* the unordered pairs of write operations that pass the filters
WwCandidates(r) ==
  {S \in SUBSET WriteRefs(r.graph) :
     \E a \in S, b \in S : a # b /\ S = {a, b} /\ PassesPairFilters(r, a, b)}

RwCandidates(r) ==
  {p \in ReadRefs(r.graph) \X WriteRefs(r.graph) : PassesPairFilters(r, p[1], p[2])}

\* how often the race (a, b) of type rtype is in the list
Occurrences(races, rtype, a, b) ==
  Cardinality({n \in 1..Len(races) :
                 /\ races[n].rtype = rtype
                 /\ <<races[n].i_event, races[n].i_op>> = a
                 /\ <<races[n].k_event, races[n].k_op>> = b})

AccountedOnce(r) ==
  LET all == r.races_harmful \o r.races_commute
  IN /\ \A a \in WriteRefs(r.graph), b \in WriteRefs(r.graph) :
          {a, b} \in WwCandidates(r) =>
            Occurrences(all, "w/w", a, b) + Occurrences(all, "w/w", b, a) = 1
     /\ \A p \in RwCandidates(r) :
          Occurrences(all, "r/w", p[1], p[2]) = IF p \in FilteredPairs(r) THEN 0 ELSE 1
     /\ r.total_filtered = Cardinality(FilteredPairs(r))
     /\ Len(r.races_harmful) + Len(r.races_commute) + r.total_filtered
          = Cardinality(WwCandidates(r)) + Cardinality(RwCandidates(r))

C37_CandidatePairsAccountedOnce == AccountedOnce(detect_races(rd, None))

C37_W_RacesAndFilteredPairs ==
  /\ rd.detected
  /\ rd = detect_races(rd, None)
  /\ rd.total_filtered > 0
  /\ WwCandidates(rd) # {}


(***************************************************************************)
(* One switch with its operations, and a host: handles may be begun while  *)
(* a handle is still started.                                              *)
(***************************************************************************)
OpsHostHandleBegin ==
  \E h \in Hids, p \in Packets : OpsSimulator(<<"TraceHostPacketHandleBegin", h, p>>)
OpsHostHandleEnd == \E h \in Hids : OpsSimulator(<<"TraceHostPacketHandleEnd", h>>)
OpsHostSend == \E h \in Hids, p \in Packets : OpsSimulator(<<"TraceHostPacketSend", h, p>>)

NextBegin ==
  \/ NextOps
  \/ OpsHostHandleBegin
  \/ OpsHostHandleEnd
  \/ OpsHostSend

SpecBegin == Init /\ [][NextBegin]_vars

(***************************************************************************)
(* C38: a PacketHandleBegin or MessageHandleBegin for a dpid (a host Begin *)
(* for a hid) that already has a started handle keeps the started handle   *)
(* and drops the new one; the kept handle is emitted exactly once, at the  *)
(* next End, with all the operations accrued before and after the second   *)
(* Begin.                                                                  *)
(***************************************************************************)
SwitchBegins(d) ==
  {<<"TraceSwitchPacketHandleBegin", d, p>> : p \in Packets}
    \cup {<<"TraceSwitchMessageHandleBegin", d, m>> : m \in InMsgs}

SwitchEnds(d) == {<<"TraceSwitchPacketHandleEnd", d>>, <<"TraceSwitchMessageHandleEnd", d>>}

\* the handle events the Logger holds anywhere
HandlesHeld(s) ==
  {e \in Range(s.trace) : e.type \in HandleTypes}
    \cup {s.started_switch_event[d] : d \in Dpids}
    \cup {s.started_host_event[h] : h \in Hids}

\* how often the event numbered eid is in the trace
TimesEmitted(s, eid) == Cardinality({n \in 1..Len(s.trace) : s.trace[n].eid = eid})

SecondSwitchBeginDropped(d, begin, end) ==
  LET kept == started_switch_event[d]
      s == handle_no_exceptions(Cur, begin)
      s1 == handle_no_exceptions(s, <<"TraceSwitchFlowTableWrite", d, "p1", "y">>)
      s2 == handle_no_exceptions(s1, end)
      emitted == s2.trace[CHOOSE n \in 1..Len(s2.trace) : s2.trace[n].eid = kept.eid]
  IN /\ s.started_switch_event[d] = kept
     /\ HandlesHeld(s) = HandlesHeld(Cur)
     /\ s.unmatched_HbMessageHandle = unmatched_HbMessageHandle
     /\ TimesEmitted(s, kept.eid) = 0
     /\ TimesEmitted(s2, kept.eid) = 1
     /\ s2.started_switch_event[d] = NoEvent
     /\ Len(emitted.operations) = Len(kept.operations) + 1
     /\ SubSeq(emitted.operations, 1, Len(kept.operations)) = kept.operations
     /\ emitted.operations[Len(emitted.operations)].type = "TraceSwitchFlowTableWrite"

SecondHostBeginDropped(h, p) ==
  LET kept == started_host_event[h]
      s == handle_no_exceptions(Cur, <<"TraceHostPacketHandleBegin", h, p>>)
      s2 == handle_no_exceptions(s, <<"TraceHostPacketHandleEnd", h>>)
  IN /\ s.started_host_event[h] = kept
     /\ HandlesHeld(s) = HandlesHeld(Cur)
     /\ TimesEmitted(s, kept.eid) = 0
     /\ TimesEmitted(s2, kept.eid) = 1
     /\ s2.started_host_event[h] = NoEvent

C38_SecondBeginKeepsStartedHandle ==
  output # "None" =>
    /\ \A d \in Dpids :
         started_switch_event[d] # NoEvent =>
           \A begin \in SwitchBegins(d), end \in SwitchEnds(d) :
             SecondSwitchBeginDropped(d, begin, end)
    /\ \A h \in Hids, p \in Packets :
         started_host_event[h] # NoEvent => SecondHostBeginDropped(h, p)

\* a successor written ahead of its handle by a second Begin, and the handle
\* written at its End with the operations it accrued
C38_W_HandleEmittedAfterSecondBegin ==
  \E i \in 1..Len(trace), j \in 1..Len(trace) :
    /\ i < j
    /\ trace[i].type = "HbPacketSend"
    /\ trace[j].type \in {"HbPacketHandle", "HbMessageHandle"}
    /\ trace[i].pid_in \in Range(trace[j].pid_out)
    /\ trace[j].operations # <<>>


(***************************************************************************)
(* C39: each controller match consumes its inputs.  No HbMessageHandle's   *)
(* mid_in is the mid_out of more than one HbControllerSend (each message   *)
(* object being received by one handle); a step writes                     *)
(* at most one HbControllerHandle/HbControllerSend pair, and with it one   *)
(* unmatched inbound entry or one buffered MessageOut line is used up, so  *)
(* neither can take part in a second match.                                *)
(***************************************************************************)
ControllerSends(tr) == {n \in 1..Len(tr) : tr[n].type = "HbControllerSend"}

\* the inbound entries waiting under all dpids
InboundWaiting(q) == Len(Flatten([d \in Dpids |-> q[d]]))

\* the HbMessageHandle events that carry the tag mid_in
HandlesOf(mid_in) == {e \in AllEvents : e.type = "HbMessageHandle" /\ e.mid_in = mid_in}

\* a message object is received once: its handle has its mid_in to itself
EachHandleLinkedOnce ==
  \A e \in AllEvents :
    e.type = "HbMessageHandle" /\ HandlesOf(e.mid_in) = {e} =>
      Cardinality({n \in ControllerSends(trace) : trace[n].mid_out = <<e.mid_in>>}) <= 1

MatchConsumesItsInputs ==
  /\ Cardinality(ControllerSends(trace')) <= Cardinality(ControllerSends(trace)) + 1
  /\ Cardinality(ControllerSends(trace')) > Cardinality(ControllerSends(trace)) =>
       \/ InboundWaiting(unmatched_HbMessageHandle')
            = InboundWaiting(unmatched_HbMessageHandle) - 1
       \/ Len(unmatched_lines_controller_msgout')
            = Len(unmatched_lines_controller_msgout) - 1

MaxPathEdges == 4

PathEvents == SubSeq(SubEvents, 1, 4)

RECURSIVE Rounds(_, _)
\* the iterations of the while loop of get_path_to_race
Rounds(st, old_len) ==
  IF Len(st.paths_to_race) > old_len
  THEN 1 + Rounds(ForEachPath(st, st.paths_to_race), Len(st.paths_to_race))
  ELSE 0

PathAddEdge ==
  \E src \in 1..Len(PathEvents), dst \in 1..Len(PathEvents) :
    /\ sim.pc = "idle"
    /\ Cardinality(rd.graph.g) < MaxPathEdges
    /\ <<src, dst, "hb">> \notin rd.graph.g
    /\ rd' = [rd EXCEPT !.graph.g = @ \cup {<<src, dst, "hb">>}]
    /\ UNCHANGED <<loggerVars, reader, sim, mutators>>

\* get_path_to_race(graph, host_send, race_ids), its traversal and its loop
GetPathToRace ==
  \E race_ids \in SUBSET (2..Len(PathEvents)) :
    /\ sim.pc = "idle"
    /\ LET traversed == _get_path_to_race(rd.graph, 1, race_ids, <<>>, EmptySearch)
       IN sim' = [pc |-> "searched",
                  traversed |-> traversed,
                  extended |-> ExtendUntilNoNewPath(traversed, 0),
                  rounds |-> Rounds(traversed, 0),
                  paths |-> get_path_to_race(rd.graph, 1, race_ids)]
    /\ UNCHANGED <<loggerVars, reader, mutators, rd>>

InitPaths ==
  /\ InitLogger
  /\ reader = ThreadIdle
  /\ sim = ThreadIdle
  /\ mutators = {}
  /\ rd = RaceDetector([events |-> PathEvents, g |-> {}], FALSE)

NextPaths ==
  \/ PathAddEdge
  \/ GetPathToRace

SpecPaths == InitPaths /\ [][NextPaths]_vars

(***************************************************************************)
(* C40: get_path_to_race terminates on every finite graph, cycles and many *)
(* alternative paths to one node included: the traversal expands each node *)
(* at most once, and the path-extension loop stops after finitely many     *)
(* rounds because each appended path removes one alternative path.         *)
(***************************************************************************)
NoNodeTwice(seq) == \A n \in 1..Len(seq), m \in 1..Len(seq) : seq[n] = seq[m] => n = m

C40_SearchTerminates ==
  sim.pc = "searched" =>
    \* each node expanded at most once; a call expands a node or records an
    \* alternative path, and there is one call for the start and one for
    \* each edge leaving an expanded node
    /\ NoNodeTwice(sim.traversed.visited)
    /\ Len(sim.traversed.visited) + Len(sim.traversed.alt_paths)
         <= 1 + Cardinality(rd.graph.g)
    \* each appended path removes one alternative path
    /\ Len(sim.extended.paths_to_race) - Len(sim.traversed.paths_to_race)
         = Len(sim.traversed.alt_paths) - Len(sim.extended.alt_paths)
    /\ sim.rounds <= Len(sim.traversed.alt_paths) + 1
    /\ sim.paths = sim.extended.paths_to_race

\* a cycle through the start, and a path to a race found by extension
C40_W_CycleAndExtension ==
  /\ sim.pc = "searched"
  /\ 1 \in Closure(rd.graph, {e[2] : e \in {x \in rd.graph.g : x[1] = 1}})
  /\ sim.rounds >= 2
  /\ Len(sim.extended.paths_to_race) > Len(sim.traversed.paths_to_race)

====
